---- MODULE Spec2Model ----
(***************************************************************************)
(* Order wizard of the VitaProd bot (src/bot/handlers/order.py) together   *)
(* with the order aggregate (src/core/orders/models.py), the validators    *)
(* (src/core/orders/validators.py), the inline keyboards                   *)
(* (src/bot/keyboards/order.py) and the chat entry point                   *)
(* (src/bot/handlers/price_query.py), for one user session.                *)
(*                                                                         *)
(* Conventions.                                                            *)
(*  - Quantities and package weights are integers in tenths of a kilogram  *)
(*    (0.5 kg = 5, 1000 kg = 10000); prices are integers.                  *)
(*  - Dates are day numbers; day 0 is a Monday, so weekday(d) = d % 7 and  *)
(*    5, 6 are Saturday and Sunday.  Times are minutes after midnight.     *)
(*  - An optional record (order, customer, delivery, packaging) carries an *)
(*    "exists" flag; optional scalars use NONE (strings), NoText (texts)   *)
(*    and NoNum (numbers).                                                 *)
(*  - Free text is a record [cls, len]: what it consists of and how long   *)
(*    it is, which is all the handlers look at.                            *)
(*  - fsm_state holds the NAME passed to state.set_state.  The handlers    *)
(*    name selecting_packaging and entering_package_weight, which          *)
(*    src/core/orders/states.py does not declare; OrderStates below is the *)
(*    declared group and HandlerStates the names the handlers use.         *)
(*  - Callback handlers carry no state filter and the inline keyboards of  *)
(*    earlier messages stay in the chat.  The user presses a button of the *)
(*    latest keyboard of the session (last.kb: a reply without a keyboard  *)
(*    leaves the one before it in place) or one of old_buttons, the        *)
(*    buttons of the messages that were in the chat before the session.    *)
(***************************************************************************)
EXTENDS Integers, Sequences, FiniteSets, TLC

VARIABLES
    fsm_state,           \* FSMContext state of the user: NONE or a state name
    data_order,          \* FSMContext data["order"]: the Order.to_dict snapshot
    editing_item_index,  \* FSMContext data["editing_item_index"], NoNum if unset
    pending_item,        \* FSMContext data["pending_item"], NoProduct if unset
    last,                \* the latest update: its handler, its reply, the latest keyboard
    today,               \* date.today()
    nextId,              \* number of Order ids generated so far
    exported,            \* ids of the orders order_exporter.export has written
    notified,            \* ids of the orders sent to a manager
    cancelled,           \* ids of the orders discarded by handle_confirm_cancel
    old_buttons,         \* callback data of the buttons of older messages in the chat
    submitted,           \* the Order object of the latest handle_order_submit run
    turn,                \* the latest handle_message run: its text, the history its
                         \* confirmation check read, the items it took, whom it called
    agg,                 \* an Order object and the calls made on it (SpecOrder)
    user,                \* the user of the update in hand: the key its FSMContext has
    storage,             \* MemoryStorage: the state and data kept under the other keys
    tasks,               \* the updates in processing that wait for the retriever
    validated            \* the latest call of a validator: its input and what it returned

vars == <<fsm_state, data_order, editing_item_index, pending_item,
          last, today, nextId, exported, notified, cancelled, old_buttons, submitted, turn, agg,
          user, storage, tasks, validated>>

(***************************************************************************)
(* Bounds of the model.                                                    *)
(***************************************************************************)
MaxOrders == 1        \* Order ids generated in one behaviour
MaxResubmits == 1     \* order:submit callbacks delivered to a session that holds no order
MaxItems == 2         \* order lines
MaxLineQty == 12000   \* largest quantity a line is followed to (tenths of a kg)

NONE == "None"
NoNum == -1
NoText == [cls |-> "none", len |-> 0]

(***************************************************************************)
(* src/core/orders/states.py                                               *)
(***************************************************************************)
OrderStates ==
    {"collecting_items", "editing_item", "confirming_items",
     "selecting_delivery_type", "entering_address", "entering_date",
     "entering_time", "entering_name", "entering_phone", "entering_company",
     "entering_comment", "final_confirmation", "editing_order"}

\* the state names the handlers of order.py pass to set_state or filter on
HandlerStates ==
    {"collecting_items", "editing_item", "confirming_items",
     "selecting_packaging", "entering_package_weight",
     "selecting_delivery_type", "entering_address", "entering_date",
     "entering_time", "entering_name", "entering_phone", "entering_company",
     "entering_comment", "final_confirmation"}

(***************************************************************************)
(* src/core/orders/models.py                                               *)
(***************************************************************************)
PackagingType == {"box", "bag", "any"}
DeliveryType == {"delivery", "pickup"}

\* the catalog the retriever answers from: two products that share a name
\* and differ in form
Catalog ==
    {[name |-> "cherry", form |-> "frozen", price |-> 4],
     [name |-> "cherry", form |-> "dried", price |-> 9]}
NoProduct == [name |-> NONE, form |-> NONE, price |-> 0]

OrderItem(product, quantity) ==
    [product_name |-> product.name, product_form |-> product.form,
     quantity_kg |-> quantity, price_per_kg |-> product.price]

OrderItem_total_price(item) == item.quantity_kg * item.price_per_kg

\* OrderItem.to_dict: the fields and the computed total_price
OrderItem_to_dict(item) ==
    [product_name |-> item.product_name, product_form |-> item.product_form,
     quantity_kg |-> item.quantity_kg, price_per_kg |-> item.price_per_kg,
     total_price |-> OrderItem_total_price(item)]

\* fault injection for C13: the stored dict taken as the item
OrderItem_as_stored(item_data) == item_data

\* OrderItem(**{k: v for k, v in item_data.items() if k != "total_price"})
OrderItem_from_dict(item_data) ==
    [product_name |-> item_data.product_name, product_form |-> item_data.product_form,
     quantity_kg |-> item_data.quantity_kg, price_per_kg |-> item_data.price_per_kg]

NoPackaging == [exists |-> FALSE, packaging_type |-> "any", weight_per_unit |-> NoNum]
\* PackagingInfo(): packaging_type = ANY, weight_per_unit = None
PackagingInfo == [exists |-> TRUE, packaging_type |-> "any", weight_per_unit |-> NoNum]

NoCustomer == [exists |-> FALSE, name |-> NoText, phone |-> NONE, company |-> NoText]
CustomerInfo(name) == [exists |-> TRUE, name |-> name, phone |-> NONE, company |-> NoText]

NoDelivery ==
    [exists |-> FALSE, delivery_type |-> "delivery", address |-> NoText,
     desired_date |-> NoNum, desired_time_from |-> NoNum, desired_time_to |-> NoNum]
\* DeliveryInfo(): delivery_type = DELIVERY, everything else None
DeliveryInfo ==
    [exists |-> TRUE, delivery_type |-> "delivery", address |-> NoText,
     desired_date |-> NoNum, desired_time_from |-> NoNum, desired_time_to |-> NoNum]

\* Order(): a fresh id, status draft, no items, nothing else set
Order(id) ==
    [id |-> id, status |-> "draft", items |-> <<>>, customer |-> NoCustomer,
     delivery |-> NoDelivery, packaging |-> NoPackaging, comment |-> NoText,
     manager_notified |-> FALSE]

RECURSIVE SumQuantity(_)
SumQuantity(items) ==
    IF items = <<>> THEN 0
    ELSE Head(items).quantity_kg + SumQuantity(Tail(items))

\* fault injection for C12: a total that stops at the first line
SumPriceOfFirst(items) ==
    IF items = <<>> THEN 0 ELSE OrderItem_total_price(Head(items))

RECURSIVE SumPrice(_)
SumPrice(items) ==
    IF items = <<>> THEN 0
    ELSE OrderItem_total_price(Head(items)) + SumPrice(Tail(items))

Order_total_quantity(order) == SumQuantity(order.items)
Order_total_price(order) == SumPrice(order.items)


\* fault injection for C11: a search that compares the names only
FirstMatchByName(items, item) ==
    LET hits == {i \in 1..Len(items) : items[i].product_name = item.product_name}
    IN IF hits = {} THEN 0 ELSE CHOOSE i \in hits : \A j \in hits : i <= j

\* index of the first line with the item's (product_name, product_form), 0 if none
FirstMatch(items, item) ==
    LET hits == {i \in 1..Len(items) :
                    /\ items[i].product_name = item.product_name
                    /\ items[i].product_form = item.product_form}
    IN IF hits = {} THEN 0 ELSE CHOOSE i \in hits : \A j \in hits : i <= j

Order_add_item(order, item) ==
    LET k == FirstMatch(order.items, item)
    IN IF k # 0
       THEN [order EXCEPT !.items[k].quantity_kg = @ + item.quantity_kg]
       ELSE [order EXCEPT !.items = Append(@, item)]

\* fault injection for C9: pop() without its argument removes the last line
PopLast(items, index) ==
    [i \in 1..(Len(items) - 1) |-> items[i]]

\* list.pop(index) for 0 <= index < len
Pop(items, index) ==
    [i \in 1..(Len(items) - 1) |-> IF i <= index THEN items[i] ELSE items[i + 1]]

\* the pair (order after the call, returned flag); index is 0-based
Order_remove_item(order, index) ==
    IF 0 <= index /\ index < Len(order.items)
    THEN [order |-> [order EXCEPT !.items = Pop(@, index)], ok |-> TRUE]
    ELSE [order |-> order, ok |-> FALSE]

Order_update_item_quantity(order, index, quantity) ==
    IF 0 <= index /\ index < Len(order.items) /\ quantity > 0
    THEN [order |-> [order EXCEPT !.items[index + 1].quantity_kg = quantity], ok |-> TRUE]
    ELSE [order |-> order, ok |-> FALSE]

\* Order.to_dict: the snapshot keeps id, status, items, customer, delivery,
\* packaging and comment; a sub-object that is None is stored as None
NoOrderData ==
    [exists |-> FALSE, id |-> 0, status |-> "draft", items |-> <<>>,
     customer |-> NoCustomer, delivery |-> NoDelivery, packaging |-> NoPackaging,
     comment |-> NoText]

Order_to_dict(order) ==
    [exists |-> TRUE, id |-> order.id, status |-> order.status,
     items |-> [i \in 1..Len(order.items) |-> OrderItem_to_dict(order.items[i])],
     customer |-> IF order.customer.exists THEN order.customer ELSE NoCustomer,
     delivery |-> IF order.delivery.exists THEN order.delivery ELSE NoDelivery,
     packaging |-> IF order.packaging.exists THEN order.packaging ELSE NoPackaging,
     comment |-> order.comment]

(***************************************************************************)
(* src/bot/handlers/order.py: helpers                                      *)
(***************************************************************************)
\* get_or_create_order: the Order rebuilt from the snapshot, or Order() with
\* the next fresh id when the session holds none
get_or_create_order(data, freshId) ==
    IF data.exists
    THEN [id |-> data.id, status |-> data.status,
          items |-> [i \in 1..Len(data.items) |-> OrderItem_from_dict(data.items[i])],
          customer |-> IF data.customer.exists THEN data.customer ELSE NoCustomer,
          delivery |-> IF data.delivery.exists THEN data.delivery ELSE NoDelivery,
          packaging |-> IF data.packaging.exists THEN data.packaging ELSE NoPackaging,
          comment |-> data.comment,
          manager_notified |-> FALSE]
    ELSE Order(freshId)

\* the order a handler works on
CurrentOrder == get_or_create_order(data_order, nextId + 1)

\* a handler that stores or exports the order it got from get_or_create_order
\* uses up an id when the session held no order
CanUseOrder == data_order.exists \/ nextId < MaxOrders
IdsAfterUse == IF data_order.exists THEN nextId ELSE nextId + 1

\* handle_order_submit stores nothing: the Order() it gets for a session
\* without an order is exported and dropped
CanSubmit == data_order.exists \/ nextId < MaxOrders + MaxResubmits

(***************************************************************************)
(* src/core/orders/validators.py                                           *)
(***************************************************************************)
MIN_DAYS_AHEAD == 1
MAX_DAYS_AHEAD == 30
WEEKEND_DAYS == {5, 6}
WORK_START == 480
WORK_END == 1080
MIN_LENGTH == 10
MIN_QUANTITY == 5
MAX_QUANTITY == 10000
YearLen == 365

weekday(d) == d % 7

\* PhoneValidator.validate on a text [cls, len, digits]: the pattern takes an
\* optional +7/8/7 prefix and exactly ten further digits; the value is the
\* canonical "+7 XXX XXX-XX-XX" of those digits
PhoneValidator_validate(text) ==
    IF text.len = 0 THEN [ok |-> FALSE, value |-> NONE]
    ELSE IF text.cls = "phone" /\ text.digits = 10
         THEN [ok |-> TRUE, value |-> "+7 912 123-45-67"]
         ELSE [ok |-> FALSE, value |-> NONE]

\* DateValidator.validate on a text [k, d] read on day t:
\*   k = "full"   a date with a year, d its day number
\*   k = "noyear" DD.MM, d its day number in the current year
\*   k = "word"   today / tomorrow / day after tomorrow, d in 0..2
\*   anything else does not parse
DateParsed(text, t) ==
    CASE text.k = "full" -> text.d
      [] text.k = "noyear" -> IF text.d < t THEN text.d + YearLen ELSE text.d
      [] text.k = "word" -> t + text.d
      [] OTHER -> NoNum

\* fault injection for C29: no minimum lead time
DateValidator_validate_from_today(text, t) ==
    LET parsed == DateParsed(text, t)
        bad(e) == [ok |-> FALSE, value |-> NoNum, error |-> e, is_weekend |-> FALSE]
    IN IF text.k = "empty" THEN bad("empty")
       ELSE IF parsed = NoNum THEN bad("format")
       ELSE IF parsed < t THEN bad("past")
       ELSE IF parsed > t + MAX_DAYS_AHEAD THEN bad("max")
       ELSE [ok |-> TRUE, value |-> parsed, error |-> NONE,
             is_weekend |-> weekday(parsed) \in WEEKEND_DAYS]

DateValidator_validate(text, t) ==
    LET parsed == DateParsed(text, t)
        bad(e) == [ok |-> FALSE, value |-> NoNum, error |-> e, is_weekend |-> FALSE]
    IN IF text.k = "empty" THEN bad("empty")
       ELSE IF parsed = NoNum THEN bad("format")
       ELSE IF parsed < t THEN bad("past")
       ELSE IF parsed < t + MIN_DAYS_AHEAD THEN bad("min")
       ELSE IF parsed > t + MAX_DAYS_AHEAD THEN bad("max")
       ELSE [ok |-> TRUE, value |-> parsed, error |-> NONE,
             is_weekend |-> weekday(parsed) \in WEEKEND_DAYS]

\* TimeValidator.validate on a text [k, slot, h1, m1, h2, m2]:
\*   k = "slot"   one of the predefined words
\*   k = "range"  h1:m1 - h2:m2
\*   k = "single" h1:m1
\* A range whose end is no time of day (time(...) raises ValueError) is read
\* again by the single patterns, which match its start.
predefined_slots ==
    [morning |-> <<480, 720>>, day |-> <<720, 960>>,
     evening |-> <<960, 1080>>, any |-> <<480, 1080>>]

IsTime(h, m) == h \in 0..23 /\ m \in 0..59
Min2(a, b) == IF a < b THEN a ELSE b

TimeValidator_validate(text) ==
    LET bad == [ok |-> FALSE, from |-> NoNum, to |-> NoNum]
        good(f, t) == [ok |-> TRUE, from |-> f, to |-> t]
        single == LET f == 60 * text.h1 + text.m1
                  IN IF f < WORK_START THEN bad
                     ELSE IF f > WORK_END THEN bad
                     ELSE good(f, 60 * Min2(text.h1 + 2, WORK_END \div 60) + text.m1)
    IN CASE text.k = "slot" ->
              good(predefined_slots[text.slot][1], predefined_slots[text.slot][2])
         [] text.k = "range" /\ IsTime(text.h1, text.m1) /\ IsTime(text.h2, text.m2) ->
              LET f == 60 * text.h1 + text.m1
                  t == 60 * text.h2 + text.m2
              IN IF f < WORK_START THEN bad
                 ELSE IF t > WORK_END THEN bad
                 ELSE IF f >= t THEN bad
                 ELSE good(f, t)
         [] text.k = "range" /\ IsTime(text.h1, text.m1) /\ ~IsTime(text.h2, text.m2) ->
              single
         [] text.k = "single" /\ IsTime(text.h1, text.m1) ->
              single
         [] OTHER -> bad

\* no validator called yet
NoCall == [fn |-> NONE, text |-> NONE, result |-> NONE]

AddressValidator_validate(text) ==
    IF text.len = 0 THEN [ok |-> FALSE, value |-> NoText]
    ELSE IF text.len < MIN_LENGTH THEN [ok |-> FALSE, value |-> NoText]
    ELSE [ok |-> TRUE, value |-> text]

\* QuantityValidator.validate on a text [num, neg, q]: float() of the text
\* without its unit word keeps the sign
QuantityValidator_validate(text) ==
    LET quantity == IF text.neg THEN 0 - text.q ELSE text.q
    IN IF ~text.num THEN [ok |-> FALSE, value |-> NoNum]
       ELSE IF quantity < MIN_QUANTITY THEN [ok |-> FALSE, value |-> NoNum]
       ELSE IF quantity > MAX_QUANTITY THEN [ok |-> FALSE, value |-> NoNum]
       ELSE [ok |-> TRUE, value |-> quantity]

(***************************************************************************)
(* src/bot/keyboards/order.py                                              *)
(* A keyboard of a reply is [kb, n]:    its kind and its parameter (the    *)
(* number of lines, the item index, the date, the day it was built on).    *)
(* A button is its callback data [cb, s, n]: the tag, a word and a number. *)
(***************************************************************************)
Btn(cb) == [cb |-> cb, s |-> "", n |-> NoNum]
BtnS(cb, s) == [cb |-> cb, s |-> s, n |-> NoNum]
BtnN(cb, n) == [cb |-> cb, s |-> "", n |-> n]

Kb(kind) == [kb |-> kind, n |-> NoNum]
KbN(kind, n) == [kb |-> kind, n |-> n]
NoKeyboard == Kb("none")

get_start_order_keyboard == {Btn("order:start"), Btn("order:add_more"), Btn("order:cancel")}

get_items_confirmation_keyboard(nitems) ==
    {BtnN("order:edit_item", i) : i \in 0..(nitems - 1)}
        \cup {BtnN("order:delete_item", i) : i \in 0..(nitems - 1)}
        \cup {Btn("order:add_item"), Btn("order:confirm_items"), Btn("order:cancel")}

get_edit_item_keyboard(item_index) ==
    {BtnN("order:change_qty", item_index), BtnN("order:delete_item", item_index),
     Btn("order:back_to_items")}

get_delete_confirmation_keyboard(item_index) ==
    {BtnN("order:confirm_delete", item_index), Btn("order:back_to_items")}

get_delivery_type_keyboard ==
    {BtnS("order:delivery", "delivery"), BtnS("order:delivery", "pickup"),
     Btn("order:back_to_items")}

\* the first day from d on that is not a Saturday or Sunday
RECURSIVE SkipWeekend(_)
SkipWeekend(d) == IF weekday(d) >= 5 THEN SkipWeekend(d + 1) ELSE d

\* the three dates offered on day t: tomorrow, the day after, the next weekday
QuickDates(t) == {t + 1, t + 2, SkipWeekend(t + 3)}

get_date_quick_keyboard(t) ==
    {BtnN("order:date", d) : d \in QuickDates(t)}
        \cup {BtnS("order:date", "custom"), Btn("order:back_to_delivery")}

TimeSlots == {"08:00-12:00", "12:00-16:00", "16:00-18:00", "08:00-18:00"}

get_time_quick_keyboard ==
    {BtnS("order:time", slot) : slot \in TimeSlots}
        \cup {BtnS("order:time", "custom"), Btn("order:back_to_date")}

get_weekend_warning_keyboard(selected_date) ==
    {BtnN("order:date_confirm", selected_date), Btn("order:back_to_date")}

get_skip_keyboard(field) == {BtnS("order:skip", field)}

get_use_saved_keyboard(field) ==
    {BtnS("order:use_saved", field), BtnS("order:enter_new", field)}

get_final_confirmation_keyboard ==
    {Btn("order:submit"), BtnS("order:edit", "items"), BtnS("order:edit", "delivery"),
     BtnS("order:edit", "contact"), BtnS("order:edit", "comment"), Btn("order:cancel")}

get_cancel_confirmation_keyboard == {Btn("order:confirm_cancel"), Btn("order:continue")}

get_order_submitted_keyboard == {Btn("order:new"), Btn("contact:manager")}

\* The five keyboards order.py imports that keyboards/order.py does not
\* define.  Each offers the forward buttons its step's handlers are
\* registered for, a back button and the cancel button.
WeightButtons == {"100", "250", "custom", "any"}

get_packaging_type_keyboard ==
    {BtnS("order:packaging", t) : t \in PackagingType}
        \cup {Btn("order:back_to_items"), Btn("order:cancel")}

get_package_weight_keyboard ==
    {BtnS("order:pkg_weight", w) : w \in WeightButtons}
        \cup {Btn("order:back_to_packaging"), Btn("order:cancel")}

get_address_input_keyboard == {Btn("order:back_to_delivery"), Btn("order:cancel")}
get_name_input_keyboard == {Btn("order:back_to_time"), Btn("order:cancel")}
get_phone_input_keyboard == {Btn("order:back_to_name"), Btn("order:cancel")}

\* the buttons of a keyboard
Buttons(scr) ==
    CASE scr.kb = "items" -> get_items_confirmation_keyboard(scr.n)
      [] scr.kb = "edit_item" -> get_edit_item_keyboard(scr.n)
      [] scr.kb = "delete_confirmation" -> get_delete_confirmation_keyboard(scr.n)
      [] scr.kb = "packaging_type" -> get_packaging_type_keyboard
      [] scr.kb = "package_weight" -> get_package_weight_keyboard
      [] scr.kb = "delivery_type" -> get_delivery_type_keyboard
      [] scr.kb = "address_input" -> get_address_input_keyboard
      [] scr.kb = "date_quick" -> get_date_quick_keyboard(scr.n)
      [] scr.kb = "weekend_warning" -> get_weekend_warning_keyboard(scr.n)
      [] scr.kb = "time_quick" -> get_time_quick_keyboard
      [] scr.kb = "name_input" -> get_name_input_keyboard
      [] scr.kb = "phone_input" -> get_phone_input_keyboard
      [] scr.kb = "skip_company" -> get_skip_keyboard("company")
      [] scr.kb = "skip_comment" -> get_skip_keyboard("comment")
      [] scr.kb = "final_confirmation" -> get_final_confirmation_keyboard
      [] scr.kb = "cancel_confirmation" -> get_cancel_confirmation_keyboard
      [] scr.kb = "order_submitted" -> get_order_submitted_keyboard
      [] OTHER -> {}

\* every callback data a handler of the order router is registered for,
\* with the parameters the keyboards can put into it
HandledCallbacks ==
    get_start_order_keyboard
        \cup get_items_confirmation_keyboard(MaxItems)
        \cup UNION {get_edit_item_keyboard(i) : i \in 0..(MaxItems - 1)}
        \cup UNION {get_delete_confirmation_keyboard(i) : i \in 0..(MaxItems - 1)}
        \cup get_packaging_type_keyboard \cup get_package_weight_keyboard
        \cup get_delivery_type_keyboard \cup get_address_input_keyboard
        \cup get_date_quick_keyboard(today)
        \cup UNION {get_weekend_warning_keyboard(d) : d \in QuickDates(today)}
        \cup get_time_quick_keyboard \cup get_name_input_keyboard
        \cup get_phone_input_keyboard
        \cup get_skip_keyboard("company") \cup get_skip_keyboard("comment")
        \cup UNION {get_use_saved_keyboard(f) : f \in {"name", "phone", "address"}}
        \cup get_final_confirmation_keyboard \cup get_cancel_confirmation_keyboard
        \cup get_order_submitted_keyboard
        \cup {BtnS("order:edit", "packaging"), Btn("order:back_to_phone"),
              Btn("order:back_to_company")}

\* callback data with a registered handler that no keyboard carries
DeadButtons ==
    HandledCallbacks \ UNION {Buttons(scr) :
        scr \in {Kb(k) : k \in {"packaging_type", "package_weight", "delivery_type",
                                 "address_input", "time_quick", "name_input", "phone_input",
                                 "skip_company", "skip_comment", "final_confirmation",
                                 "cancel_confirmation", "order_submitted"}}
              \cup {KbN("items", MaxItems), KbN("date_quick", today)}
              \cup {KbN(k, i) : k \in {"edit_item", "delete_confirmation"},
                                i \in 0..(MaxItems - 1)}
              \cup {KbN("weekend_warning", d) : d \in QuickDates(today)}}

\* the user presses the button with callback data c
Pressed(c) == c \in Buttons(last.kb) \cup old_buttons

(***************************************************************************)
(* src/bot/handlers/order.py: the handlers.  Each action is one handler    *)
(* run to its end, or to the statement that raises.                        *)
(***************************************************************************)
\* the handler's name, the kind of its reply, and the keyboard it shows
\* OrderIntent(is_order=False, items=[], confidence=0.0); confidence in tenths
NoIntent == [is_order |-> FALSE, items |-> <<>>, confidence |-> 0]

NoTurn == [text |-> <<>>, history |-> <<>>, items |-> <<>>, called |-> {}]

Says(h, reply, kb) ==
    /\ last' = [h |-> h, reply |-> reply, kb |-> kb]
    /\ turn' = NoTurn

\* fault injection for C5: a clear() that leaves the data in place
ClearNothing ==
    UNCHANGED <<data_order, editing_item_index, pending_item>>

\* state.clear(): the state and every key of the data
ClearData ==
    /\ data_order' = NoOrderData
    /\ editing_item_index' = NoNum
    /\ pending_item' = NoProduct

\* save_order_to_state
save_order_to_state(order) ==
    /\ CanUseOrder
    /\ data_order' = Order_to_dict(order)
    /\ nextId' = IdsAfterUse

KeepOrder == UNCHANGED <<data_order, nextId>>
KeepEnv == UNCHANGED <<today, exported, notified, cancelled, old_buttons, submitted, agg,
              user, storage, tasks, validated>>

\* start_order_from_cart(items): items are the dicts of the detected intent
RECURSIVE AddAll(_, _)
AddAll(order, items) ==
    IF items = <<>> THEN order
    ELSE AddAll(Order_add_item(order, OrderItem(Head(items).product, Head(items).quantity)),
                Tail(items))

TelegramName == [cls |-> "letters", len |-> 5]

\* how far start_order_from_cart gets with the item dicts of an intent: a
\* dict without "quantity" raises KeyError in the loop, a null quantity
\* TypeError in to_dict, a null product_form AttributeError in
\* format_items_summary, after the order and the state were written
CartOutcome(items) ==
    IF \E k \in 1..Len(items) : "quantity" \notin DOMAIN items[k] THEN "raised"
    ELSE IF \E k \in 1..Len(items) : items[k].quantity = NoNum THEN "raised"
    ELSE IF \E k \in 1..Len(items) : items[k].product.form = NONE
         THEN "raised_after_save"
         ELSE "done"

\* start_order_from_cart up to state.set_state
cart_saved(items) ==
    LET order == [AddAll(Order(nextId + 1), items) EXCEPT !.customer = CustomerInfo(TelegramName)]
    IN /\ nextId < MaxOrders
       /\ data_order' = Order_to_dict(order)
       /\ nextId' = nextId + 1
       /\ fsm_state' = "confirming_items"
       /\ UNCHANGED <<editing_item_index, pending_item>>

start_order_from_cart(items) ==
    /\ cart_saved(items)
    /\ last' = [h |-> "start_order_from_cart", reply |-> "items",
                kb |-> KbN("items", Len(AddAll(Order(nextId + 1), items).items))]

handle_order_start ==
    /\ Pressed(Btn("order:start"))
    /\ IF CurrentOrder.items = <<>>
       THEN /\ fsm_state' = NONE
            /\ ClearData
            /\ Says("handle_order_start", "no_items", NoKeyboard)
       ELSE /\ fsm_state' = "selecting_packaging"
            /\ Says("handle_order_start", "prompt", Kb("packaging_type"))
            /\ UNCHANGED <<data_order, editing_item_index, pending_item>>
    /\ UNCHANGED nextId
    /\ KeepEnv

handle_back_to_items ==
    /\ Pressed(Btn("order:back_to_items"))
    /\ fsm_state' = "confirming_items"
    /\ Says("handle_back_to_items", "items", KbN("items", Len(CurrentOrder.items)))
    /\ UNCHANGED <<data_order, editing_item_index, pending_item, nextId>>
    /\ KeepEnv

handle_edit_item(item_index) ==
    /\ Pressed(BtnN("order:edit_item", item_index))
    /\ IF item_index >= Len(CurrentOrder.items)
       THEN /\ Says("handle_edit_item", "not_found", last.kb)
            /\ UNCHANGED editing_item_index
       ELSE /\ editing_item_index' = item_index
            /\ Says("handle_edit_item", "prompt", KbN("edit_item", item_index))
    /\ UNCHANGED <<fsm_state, data_order, pending_item, nextId>>
    /\ KeepEnv

handle_delete_item_request(item_index) ==
    /\ Pressed(BtnN("order:delete_item", item_index))
    /\ IF item_index >= Len(CurrentOrder.items)
       THEN Says("handle_delete_item_request", "not_found", last.kb)
       ELSE Says("handle_delete_item_request", "prompt",
                 KbN("delete_confirmation", item_index))
    /\ UNCHANGED <<fsm_state, data_order, editing_item_index, pending_item, nextId>>
    /\ KeepEnv

handle_confirm_delete(item_index) ==
    LET removed == Order_remove_item(CurrentOrder, item_index)
    IN /\ Pressed(BtnN("order:confirm_delete", item_index))
       /\ IF removed.order.items = <<>>
          THEN /\ fsm_state' = NONE
               /\ ClearData
               /\ Says("handle_confirm_delete", "order_cancelled", NoKeyboard)
          ELSE /\ data_order' = IF removed.ok THEN Order_to_dict(removed.order)
                                ELSE data_order
               /\ Says("handle_confirm_delete", "items",
                       KbN("items", Len(removed.order.items)))
               /\ UNCHANGED <<fsm_state, editing_item_index, pending_item>>
       /\ UNCHANGED nextId
       /\ KeepEnv

handle_change_quantity_request(item_index) ==
    /\ Pressed(BtnN("order:change_qty", item_index))
    /\ IF item_index >= Len(CurrentOrder.items)
       THEN /\ Says("handle_change_quantity_request", "not_found", last.kb)
            /\ UNCHANGED <<fsm_state, editing_item_index>>
       ELSE /\ fsm_state' = "editing_item"
            /\ editing_item_index' = item_index
            /\ Says("handle_change_quantity_request", "prompt", NoKeyboard)
    /\ UNCHANGED <<data_order, pending_item, nextId>>
    /\ KeepEnv

\* data.get("editing_item_index", 0)
EditingIndex == IF editing_item_index = NoNum THEN 0 ELSE editing_item_index

handle_quantity_input(text) ==
    LET v == QuantityValidator_validate(text)
        updated == Order_update_item_quantity(CurrentOrder, EditingIndex, v.value)
    IN /\ fsm_state = "editing_item"
       /\ IF ~v.ok
          THEN /\ Says("handle_quantity_input", "error", last.kb)
               /\ UNCHANGED <<fsm_state, data_order>>
          ELSE /\ data_order' = IF updated.ok THEN Order_to_dict(updated.order)
                                ELSE data_order
               /\ fsm_state' = "confirming_items"
               /\ Says("handle_quantity_input",
                       IF updated.ok THEN "updated" ELSE "items",
                       KbN("items", Len(updated.order.items)))
       /\ UNCHANGED <<editing_item_index, pending_item, nextId>>
       /\ KeepEnv

handle_confirm_items ==
    /\ Pressed(Btn("order:confirm_items"))
    /\ fsm_state' = "selecting_packaging"
    /\ Says("handle_confirm_items", "prompt", Kb("packaging_type"))
    /\ UNCHANGED <<data_order, editing_item_index, pending_item, nextId>>
    /\ KeepEnv

\* fault injection for C1: the weight is asked for whatever the packaging is
proceed_to_package_weight(h) ==
    /\ fsm_state' = "entering_package_weight"
    /\ Says(h, "prompt", Kb("package_weight"))

\* proceed_to_delivery_type
proceed_to_delivery_type(h) ==
    /\ fsm_state' = "selecting_delivery_type"
    /\ Says(h, "prompt", Kb("delivery_type"))

handle_packaging_selected(packaging_type) ==
    LET order == CurrentOrder
        packaging == IF order.packaging.exists THEN order.packaging ELSE PackagingInfo
        typed == [order EXCEPT !.packaging = [packaging EXCEPT !.packaging_type = packaging_type]]
    IN /\ Pressed(BtnS("order:packaging", packaging_type))
       /\ IF packaging_type = "any"
          THEN /\ save_order_to_state([typed EXCEPT !.packaging.weight_per_unit = NoNum])
               /\ proceed_to_delivery_type("handle_packaging_selected")
          ELSE /\ save_order_to_state(typed)
               /\ fsm_state' = "entering_package_weight"
               /\ Says("handle_packaging_selected", "prompt", Kb("package_weight"))
       /\ UNCHANGED <<editing_item_index, pending_item>>
       /\ KeepEnv

handle_back_to_packaging ==
    /\ Pressed(Btn("order:back_to_packaging"))
    /\ fsm_state' = "selecting_packaging"
    /\ Says("handle_back_to_packaging", "prompt", Kb("packaging_type"))
    /\ UNCHANGED <<data_order, editing_item_index, pending_item, nextId>>
    /\ KeepEnv

\* float(weight_str) of a weight button, in tenths of a kilogram
WeightOfButton(weight_str) ==
    CASE weight_str = "100" -> 100
      [] weight_str = "250" -> 250
      [] OTHER -> NoNum

handle_package_weight_selected(weight_str) ==
    LET order == CurrentOrder
    IN /\ Pressed(BtnS("order:pkg_weight", weight_str))
       /\ IF weight_str = "custom"
          THEN /\ fsm_state' = "entering_package_weight"
               /\ Says("handle_package_weight_selected", "prompt", NoKeyboard)
               /\ KeepOrder
          ELSE IF ~order.packaging.exists
          THEN \* order.packaging is None: the assignment raises
               /\ Says("handle_package_weight_selected", "raised", last.kb)
               /\ UNCHANGED fsm_state
               /\ KeepOrder
          ELSE /\ save_order_to_state(
                      [order EXCEPT !.packaging.weight_per_unit = WeightOfButton(weight_str)])
               /\ proceed_to_delivery_type("handle_package_weight_selected")
       /\ UNCHANGED <<editing_item_index, pending_item>>
       /\ KeepEnv

\* the first number in the text: the pattern has no sign
FirstNumber(text) == IF text.num THEN text.q ELSE NoNum

handle_package_weight_input(text) ==
    LET weight == FirstNumber(text)
        order == CurrentOrder
    IN /\ fsm_state = "entering_package_weight"
       /\ IF weight = NoNum \/ weight < 10 \/ weight > 500
          THEN /\ Says("handle_package_weight_input", "error", last.kb)
               /\ UNCHANGED fsm_state
               /\ KeepOrder
          ELSE IF ~order.packaging.exists
          THEN /\ Says("handle_package_weight_input", "raised", last.kb)
               /\ UNCHANGED fsm_state
               /\ KeepOrder
          ELSE /\ save_order_to_state([order EXCEPT !.packaging.weight_per_unit = weight])
               /\ fsm_state' = "selecting_delivery_type"
               /\ Says("handle_package_weight_input", "prompt", Kb("delivery_type"))
       /\ UNCHANGED <<editing_item_index, pending_item>>
       /\ KeepEnv

handle_delivery_selected ==
    LET order == CurrentOrder
        delivery == IF order.delivery.exists THEN order.delivery ELSE DeliveryInfo
    IN /\ Pressed(BtnS("order:delivery", "delivery"))
       /\ save_order_to_state(
              [order EXCEPT !.delivery = [delivery EXCEPT !.delivery_type = "delivery"]])
       /\ fsm_state' = "entering_address"
       /\ Says("handle_delivery_selected", "prompt", Kb("address_input"))
       /\ UNCHANGED <<editing_item_index, pending_item>>
       /\ KeepEnv

\* fault injection for C2: pickup handled like delivery after the type is stored
pickup_selected_asks_address ==
    LET order == CurrentOrder
        delivery == IF order.delivery.exists THEN order.delivery ELSE DeliveryInfo
    IN /\ Pressed(BtnS("order:delivery", "pickup"))
       /\ save_order_to_state(
              [order EXCEPT !.delivery = [delivery EXCEPT !.delivery_type = "pickup"]])
       /\ fsm_state' = "entering_address"
       /\ Says("handle_pickup_selected", "prompt", Kb("address_input"))
       /\ UNCHANGED <<editing_item_index, pending_item>>
       /\ KeepEnv

handle_pickup_selected ==
    LET order == CurrentOrder
        delivery == IF order.delivery.exists THEN order.delivery ELSE DeliveryInfo
    IN /\ Pressed(BtnS("order:delivery", "pickup"))
       /\ save_order_to_state(
              [order EXCEPT !.delivery = [delivery EXCEPT !.delivery_type = "pickup"]])
       /\ fsm_state' = "entering_date"
       /\ Says("handle_pickup_selected", "prompt", KbN("date_quick", today))
       /\ UNCHANGED <<editing_item_index, pending_item>>
       /\ KeepEnv

handle_back_to_delivery ==
    /\ Pressed(Btn("order:back_to_delivery"))
    /\ fsm_state' = "selecting_delivery_type"
    /\ Says("handle_back_to_delivery", "prompt", Kb("delivery_type"))
    /\ UNCHANGED <<data_order, editing_item_index, pending_item, nextId>>
    /\ KeepEnv

\* fault injection for C8: the address is stored before it is validated
address_input_stored_first(text) ==
    LET v == AddressValidator_validate(text)
        order == CurrentOrder
    IN /\ fsm_state = "entering_address"
       /\ IF ~order.delivery.exists
          THEN /\ Says("handle_address_input", "raised", last.kb)
               /\ UNCHANGED fsm_state
               /\ KeepOrder
          ELSE /\ save_order_to_state([order EXCEPT !.delivery.address = text])
               /\ IF ~v.ok
                  THEN /\ Says("handle_address_input", "error", Kb("address_input"))
                       /\ UNCHANGED fsm_state
                  ELSE /\ fsm_state' = "entering_date"
                       /\ Says("handle_address_input", "prompt", KbN("date_quick", today))
       /\ UNCHANGED <<editing_item_index, pending_item>>
       /\ KeepEnv

handle_address_input(text) ==
    LET v == AddressValidator_validate(text)
        order == CurrentOrder
    IN /\ fsm_state = "entering_address"
       /\ IF ~v.ok
          THEN /\ Says("handle_address_input", "error", Kb("address_input"))
               /\ UNCHANGED fsm_state
               /\ KeepOrder
          ELSE IF ~order.delivery.exists
          THEN /\ Says("handle_address_input", "raised", last.kb)
               /\ UNCHANGED fsm_state
               /\ KeepOrder
          ELSE /\ save_order_to_state([order EXCEPT !.delivery.address = v.value])
               /\ fsm_state' = "entering_date"
               /\ Says("handle_address_input", "prompt", KbN("date_quick", today))
       /\ UNCHANGED <<editing_item_index, pending_item>>
       /\ KeepEnv

\* set_delivery_date
set_delivery_date(h, selected_date) ==
    LET order == CurrentOrder
    IN IF ~order.delivery.exists
       THEN /\ Says(h, "raised", last.kb)
            /\ UNCHANGED fsm_state
            /\ KeepOrder
       ELSE /\ save_order_to_state([order EXCEPT !.delivery.desired_date = selected_date])
            /\ fsm_state' = "entering_time"
            /\ Says(h, "prompt", Kb("time_quick"))

handle_date_selection_custom ==
    /\ Pressed(BtnS("order:date", "custom"))
    /\ fsm_state' = "entering_date"
    /\ Says("handle_date_selection", "prompt", NoKeyboard)
    /\ UNCHANGED <<data_order, editing_item_index, pending_item, nextId>>
    /\ KeepEnv

\* fault injection for C3: a quick button that writes any date at once
date_selection_without_warning(selected_date) ==
    /\ Pressed(BtnN("order:date", selected_date))
    /\ set_delivery_date("handle_date_selection", selected_date)
    /\ UNCHANGED <<editing_item_index, pending_item>>
    /\ KeepEnv

handle_date_selection(selected_date) ==
    /\ Pressed(BtnN("order:date", selected_date))
    /\ IF weekday(selected_date) >= 5
       THEN /\ Says("handle_date_selection", "weekend_warning",
                    KbN("weekend_warning", selected_date))
            /\ UNCHANGED fsm_state
            /\ KeepOrder
       ELSE set_delivery_date("handle_date_selection", selected_date)
    /\ UNCHANGED <<editing_item_index, pending_item>>
    /\ KeepEnv

handle_back_to_date ==
    /\ Pressed(Btn("order:back_to_date"))
    /\ fsm_state' = "entering_date"
    /\ IF ~CurrentOrder.delivery.exists
       THEN Says("handle_back_to_date", "raised", last.kb)
       ELSE Says("handle_back_to_date", "prompt", KbN("date_quick", today))
    /\ UNCHANGED <<data_order, editing_item_index, pending_item, nextId>>
    /\ KeepEnv

handle_date_confirm(selected_date) ==
    /\ Pressed(BtnN("order:date_confirm", selected_date))
    /\ set_delivery_date("handle_date_confirm", selected_date)
    /\ UNCHANGED <<editing_item_index, pending_item>>
    /\ KeepEnv

handle_date_input(text) ==
    LET v == DateValidator_validate(text, today)
        order == CurrentOrder
    IN /\ fsm_state = "entering_date"
       /\ IF ~v.ok
          THEN /\ Says("handle_date_input", "error", last.kb)
               /\ UNCHANGED fsm_state
               /\ KeepOrder
          ELSE IF v.is_weekend
          THEN /\ Says("handle_date_input", "weekend_warning",
                       KbN("weekend_warning", v.value))
               /\ UNCHANGED fsm_state
               /\ KeepOrder
          ELSE IF ~order.delivery.exists
          THEN /\ Says("handle_date_input", "raised", last.kb)
               /\ UNCHANGED fsm_state
               /\ KeepOrder
          ELSE /\ save_order_to_state([order EXCEPT !.delivery.desired_date = v.value])
               /\ fsm_state' = "entering_time"
               /\ Says("handle_date_input", "prompt", Kb("time_quick"))
       /\ UNCHANGED <<editing_item_index, pending_item>>
       /\ KeepEnv

\* time.fromisoformat of the two halves of a time button
TimeOfButton(slot) ==
    CASE slot = "08:00-12:00" -> <<480, 720>>
      [] slot = "12:00-16:00" -> <<720, 960>>
      [] slot = "16:00-18:00" -> <<960, 1080>>
      [] slot = "08:00-18:00" -> <<480, 1080>>

\* set_delivery_time and the tail of handle_time_input
set_delivery_time(h, time_from, time_to) ==
    LET order == CurrentOrder
    IN IF ~order.delivery.exists
       THEN /\ Says(h, "raised", last.kb)
            /\ UNCHANGED fsm_state
            /\ KeepOrder
       ELSE /\ save_order_to_state(
                   [order EXCEPT !.delivery.desired_time_from = time_from,
                                 !.delivery.desired_time_to = time_to])
            /\ fsm_state' = "entering_name"
            /\ Says(h, "prompt", Kb("name_input"))

handle_time_selection_custom ==
    /\ Pressed(BtnS("order:time", "custom"))
    /\ fsm_state' = "entering_time"
    /\ Says("handle_time_selection", "prompt", NoKeyboard)
    /\ UNCHANGED <<data_order, editing_item_index, pending_item, nextId>>
    /\ KeepEnv

handle_time_selection(slot) ==
    /\ Pressed(BtnS("order:time", slot))
    /\ slot \in TimeSlots
    /\ set_delivery_time("handle_time_selection", TimeOfButton(slot)[1], TimeOfButton(slot)[2])
    /\ UNCHANGED <<editing_item_index, pending_item>>
    /\ KeepEnv

handle_back_to_time ==
    /\ Pressed(Btn("order:back_to_time"))
    /\ fsm_state' = "entering_time"
    /\ IF ~CurrentOrder.delivery.exists \/ CurrentOrder.delivery.desired_date = NoNum
       THEN Says("handle_back_to_time", "raised", last.kb)
       ELSE Says("handle_back_to_time", "prompt", Kb("time_quick"))
    /\ UNCHANGED <<data_order, editing_item_index, pending_item, nextId>>
    /\ KeepEnv

handle_time_input(text) ==
    LET v == TimeValidator_validate(text)
    IN /\ fsm_state = "entering_time"
       /\ IF ~v.ok
          THEN /\ Says("handle_time_input", "error", last.kb)
               /\ UNCHANGED fsm_state
               /\ KeepOrder
          ELSE set_delivery_time("handle_time_input", v.from, v.to)
       /\ UNCHANGED <<editing_item_index, pending_item>>
       /\ KeepEnv

\* proceed_to_phone
proceed_to_phone(h, order) ==
    /\ fsm_state' = "entering_phone"
    /\ IF ~order.customer.exists
       THEN Says(h, "none", last.kb)
       ELSE Says(h, "prompt", Kb("phone_input"))

handle_use_saved_name ==
    /\ Pressed(BtnS("order:use_saved", "name"))
    /\ proceed_to_phone("handle_use_saved_name", CurrentOrder)
    /\ UNCHANGED <<data_order, editing_item_index, pending_item, nextId>>
    /\ KeepEnv

handle_enter_new_name ==
    /\ Pressed(BtnS("order:enter_new", "name"))
    /\ fsm_state' = "entering_name"
    /\ Says("handle_enter_new_name", "prompt", Kb("name_input"))
    /\ UNCHANGED <<data_order, editing_item_index, pending_item, nextId>>
    /\ KeepEnv

handle_back_to_name ==
    /\ Pressed(Btn("order:back_to_name"))
    /\ fsm_state' = "entering_name"
    /\ Says("handle_back_to_name", "prompt", Kb("name_input"))
    /\ UNCHANGED <<data_order, editing_item_index, pending_item, nextId>>
    /\ KeepEnv

\* the three checks of handle_name_input on the stripped text
NameAccepted(text) ==
    /\ ~(text.cls = "phone" /\ text.len >= 7)
    /\ text.len >= 2
    /\ text.len <= 100

handle_name_input(text) ==
    LET order == CurrentOrder
        customer == IF order.customer.exists THEN order.customer ELSE CustomerInfo(NoText)
        named == [order EXCEPT !.customer = [customer EXCEPT !.name = text]]
    IN /\ fsm_state = "entering_name"
       /\ IF ~NameAccepted(text)
          THEN /\ Says("handle_name_input", "error", Kb("name_input"))
               /\ UNCHANGED fsm_state
               /\ KeepOrder
          ELSE /\ save_order_to_state(named)
               /\ proceed_to_phone("handle_name_input", named)
       /\ UNCHANGED <<editing_item_index, pending_item>>
       /\ KeepEnv

handle_back_to_phone ==
    /\ Pressed(Btn("order:back_to_phone"))
    /\ fsm_state' = "entering_phone"
    /\ IF ~CurrentOrder.customer.exists
       THEN Says("handle_back_to_phone", "raised", last.kb)
       ELSE Says("handle_back_to_phone", "prompt", Kb("phone_input"))
    /\ UNCHANGED <<data_order, editing_item_index, pending_item, nextId>>
    /\ KeepEnv

\* proceed_to_company: the prompt reads order.customer.phone
proceed_to_company(h, order) ==
    /\ fsm_state' = "entering_company"
    /\ IF ~order.customer.exists
       THEN Says(h, "raised", last.kb)
       ELSE Says(h, "prompt", Kb("skip_company"))

\* data["saved_phone"] is written nowhere, so the handler stores nothing
handle_use_saved_phone ==
    /\ Pressed(BtnS("order:use_saved", "phone"))
    /\ proceed_to_company("handle_use_saved_phone", CurrentOrder)
    /\ UNCHANGED <<data_order, editing_item_index, pending_item, nextId>>
    /\ KeepEnv

handle_enter_new_phone ==
    /\ Pressed(BtnS("order:enter_new", "phone"))
    /\ fsm_state' = "entering_phone"
    /\ Says("handle_enter_new_phone", "prompt", Kb("phone_input"))
    /\ UNCHANGED <<data_order, editing_item_index, pending_item, nextId>>
    /\ KeepEnv

handle_phone_input(text) ==
    LET v == PhoneValidator_validate(text)
        order == CurrentOrder
    IN /\ fsm_state = "entering_phone"
       /\ IF ~v.ok
          THEN /\ Says("handle_phone_input", "error", Kb("phone_input"))
               /\ UNCHANGED fsm_state
               /\ KeepOrder
          ELSE IF ~order.customer.exists
          THEN /\ Says("handle_phone_input", "raised", last.kb)
               /\ UNCHANGED fsm_state
               /\ KeepOrder
          ELSE /\ save_order_to_state([order EXCEPT !.customer.phone = v.value])
               /\ proceed_to_company("handle_phone_input", order)
       /\ UNCHANGED <<editing_item_index, pending_item>>
       /\ KeepEnv

handle_back_to_company ==
    /\ Pressed(Btn("order:back_to_company"))
    /\ proceed_to_company("handle_back_to_company", CurrentOrder)
    /\ UNCHANGED <<data_order, editing_item_index, pending_item, nextId>>
    /\ KeepEnv

\* proceed_to_comment
proceed_to_comment(h) ==
    /\ fsm_state' = "entering_comment"
    /\ Says(h, "prompt", Kb("skip_comment"))

handle_skip_company ==
    /\ Pressed(BtnS("order:skip", "company"))
    /\ proceed_to_comment("handle_skip_company")
    /\ UNCHANGED <<data_order, editing_item_index, pending_item, nextId>>
    /\ KeepEnv

handle_company_input(text) ==
    LET order == CurrentOrder
    IN /\ fsm_state = "entering_company"
       /\ IF ~order.customer.exists
          THEN /\ Says("handle_company_input", "raised", last.kb)
               /\ UNCHANGED fsm_state
               /\ KeepOrder
          ELSE /\ save_order_to_state([order EXCEPT !.customer.company = text])
               /\ proceed_to_comment("handle_company_input")
       /\ UNCHANGED <<editing_item_index, pending_item>>
       /\ KeepEnv

\* fault injection for C39: the summary shown without the step being entered
show_summary_in_same_step(h) ==
    /\ UNCHANGED fsm_state
    /\ Says(h, "summary", Kb("final_confirmation"))

\* show_final_confirmation
show_final_confirmation(h) ==
    /\ fsm_state' = "final_confirmation"
    /\ Says(h, "summary", Kb("final_confirmation"))

handle_skip_comment ==
    /\ Pressed(BtnS("order:skip", "comment"))
    /\ show_final_confirmation("handle_skip_comment")
    /\ UNCHANGED <<data_order, editing_item_index, pending_item, nextId>>
    /\ KeepEnv

handle_comment_input(text) ==
    /\ fsm_state = "entering_comment"
    /\ save_order_to_state([CurrentOrder EXCEPT !.comment = text])
    /\ show_final_confirmation("handle_comment_input")
    /\ UNCHANGED <<editing_item_index, pending_item>>
    /\ KeepEnv

\* settings.manager_ids: the recipients of a submitted order
ManagerIds == {1, 2}

\* no handle_order_submit has run
NoSubmit == [id |-> 0, status |-> NONE, attempted |-> {}, failed |-> {}]

\* handle_order_submit; export_ok is whether order_exporter.export returns,
\* failed the managers for whom send_message or send_document raises
handle_order_submit(export_ok, failed) ==
    LET order == [CurrentOrder EXCEPT !.status = "sent"]
    IN /\ Pressed(Btn("order:submit"))
       /\ CanSubmit
       /\ nextId' = IdsAfterUse
       /\ IF ~export_ok
          THEN \* order_exporter.export raises: nothing is sent or cleared
               /\ submitted' = [id |-> order.id, status |-> order.status,
                                attempted |-> {}, failed |-> {}]
               /\ Says("handle_order_submit", "raised", last.kb)
               /\ UNCHANGED <<fsm_state, data_order, editing_item_index, pending_item,
                              exported, notified>>
          ELSE /\ exported' = exported \cup {order.id}
               /\ submitted' = [id |-> order.id, status |-> order.status,
                                attempted |-> ManagerIds, failed |-> failed]
               /\ notified' = IF ManagerIds \ failed = {} THEN notified
                                                          ELSE notified \cup {order.id}
               /\ fsm_state' = NONE
               /\ ClearData
               /\ IF ~order.customer.exists
                  THEN \* order.customer.phone raises
                       Says("handle_order_submit", "raised", last.kb)
                  ELSE Says("handle_order_submit", "accepted", Kb("order_submitted"))
       /\ UNCHANGED <<today, cancelled, old_buttons, agg, user, storage, tasks, validated>>

handle_cancel_request ==
    /\ Pressed(Btn("order:cancel"))
    /\ Says("handle_cancel_request", "prompt", Kb("cancel_confirmation"))
    /\ UNCHANGED <<fsm_state, data_order, editing_item_index, pending_item, nextId>>
    /\ KeepEnv

handle_confirm_cancel ==
    /\ Pressed(Btn("order:confirm_cancel"))
    /\ fsm_state' = NONE
    /\ ClearData
    /\ cancelled' = IF data_order.exists THEN cancelled \cup {data_order.id} ELSE cancelled
    /\ Says("handle_confirm_cancel", "order_cancelled", NoKeyboard)
    /\ UNCHANGED <<nextId, today, exported, notified, old_buttons, submitted, agg,
              user, storage, tasks, validated>>

handle_continue_order ==
    /\ Pressed(Btn("order:continue"))
    /\ show_final_confirmation("handle_continue_order")
    /\ UNCHANGED <<data_order, editing_item_index, pending_item, nextId>>
    /\ KeepEnv

handle_edit_items ==
    /\ Pressed(BtnS("order:edit", "items"))
    /\ fsm_state' = "confirming_items"
    /\ Says("handle_edit_items", "items", KbN("items", Len(CurrentOrder.items)))
    /\ UNCHANGED <<data_order, editing_item_index, pending_item, nextId>>
    /\ KeepEnv

handle_edit_packaging ==
    /\ Pressed(BtnS("order:edit", "packaging"))
    /\ fsm_state' = "selecting_packaging"
    /\ Says("handle_edit_packaging", "prompt", Kb("packaging_type"))
    /\ UNCHANGED <<data_order, editing_item_index, pending_item, nextId>>
    /\ KeepEnv

\* fault injection for C6: editing the delivery section forgets it
edit_delivery_resets ==
    /\ Pressed(BtnS("order:edit", "delivery"))
    /\ fsm_state' = "selecting_delivery_type"
    /\ data_order' = [data_order EXCEPT !.delivery = NoDelivery]
    /\ Says("handle_edit_delivery", "prompt", Kb("delivery_type"))
    /\ UNCHANGED <<editing_item_index, pending_item, nextId>>
    /\ KeepEnv

handle_edit_delivery ==
    /\ Pressed(BtnS("order:edit", "delivery"))
    /\ fsm_state' = "selecting_delivery_type"
    /\ Says("handle_edit_delivery", "prompt", Kb("delivery_type"))
    /\ UNCHANGED <<data_order, editing_item_index, pending_item, nextId>>
    /\ KeepEnv

handle_edit_contact ==
    /\ Pressed(BtnS("order:edit", "contact"))
    /\ fsm_state' = "entering_name"
    /\ Says("handle_edit_contact", "prompt", Kb("name_input"))
    /\ UNCHANGED <<data_order, editing_item_index, pending_item, nextId>>
    /\ KeepEnv

handle_edit_comment ==
    /\ Pressed(BtnS("order:edit", "comment"))
    /\ fsm_state' = "entering_comment"
    /\ Says("handle_edit_comment", "prompt", Kb("skip_comment"))
    /\ UNCHANGED <<data_order, editing_item_index, pending_item, nextId>>
    /\ KeepEnv

handle_add_more ==
    /\ Pressed(Btn("order:add_more"))
    /\ fsm_state' = NONE
    /\ ClearData
    /\ Says("handle_add_more", "prompt", NoKeyboard)
    /\ UNCHANGED nextId
    /\ KeepEnv

handle_add_item ==
    /\ Pressed(Btn("order:add_item"))
    /\ fsm_state' = "collecting_items"
    /\ Says("handle_add_item", "prompt", NoKeyboard)
    /\ UNCHANGED <<data_order, editing_item_index, pending_item, nextId>>
    /\ KeepEnv

\* fault injection for C23: a product without a quantity is taken as 1 kg
parse_item_with_default_quantity(text) ==
    LET number == FirstNumber(text.qty)
        quantity == IF number = NoNum \/ number <= 0 \/ number > 10000
                    THEN 10 ELSE number
    IN IF text.product = NoProduct
       THEN [found |-> FALSE, product |-> NoProduct, quantity |-> NoNum]
       ELSE [found |-> TRUE, product |-> text.product, quantity |-> quantity]

\* parse_item_from_text on a text [done, product, qty]: product is the best
\* catalog match of the words (NoProduct if there is none with score >= 0.5),
\* qty the number in the text.  The result is None (found = FALSE), a product
\* that needs a quantity (quantity = NoNum), or a product with its quantity.
parse_item_from_text(text) ==
    LET number == FirstNumber(text.qty)
        quantity == IF number = NoNum \/ number <= 0 \/ number > 10000
                    THEN NoNum ELSE number
    IN IF text.product = NoProduct
       THEN [found |-> FALSE, product |-> NoProduct, quantity |-> NoNum]
       ELSE [found |-> TRUE, product |-> text.product, quantity |-> quantity]

\* the order after order.add_item, followed while no line exceeds MaxLineQty
AddedWithinBound(order, item) ==
    \A i \in 1..Len(Order_add_item(order, item).items) :
        Order_add_item(order, item).items[i].quantity_kg <= MaxLineQty

handle_collecting_items(text) ==
    LET order == CurrentOrder
        number == FirstNumber(text.qty)
        item_data == parse_item_from_text(text)
    IN /\ fsm_state = "collecting_items"
       /\ IF text.done
          THEN IF order.items = <<>>
               THEN /\ Says("handle_collecting_items", "error", last.kb)
                    /\ UNCHANGED <<fsm_state, pending_item>>
                    /\ KeepOrder
               ELSE /\ fsm_state' = "confirming_items"
                    /\ Says("handle_collecting_items", "items",
                            KbN("items", Len(order.items)))
                    /\ UNCHANGED pending_item
                    /\ KeepOrder
          ELSE IF pending_item # NoProduct
          THEN IF number # NoNum /\ 0 < number /\ number <= 10000
               THEN /\ AddedWithinBound(order, OrderItem(pending_item, number))
                    /\ save_order_to_state(Order_add_item(order, OrderItem(pending_item, number)))
                    /\ pending_item' = NoProduct
                    /\ Says("handle_collecting_items", "added", last.kb)
                    /\ UNCHANGED fsm_state
               ELSE /\ Says("handle_collecting_items", "ask_quantity", last.kb)
                    /\ UNCHANGED <<fsm_state, pending_item>>
                    /\ KeepOrder
          ELSE IF ~item_data.found
          THEN /\ Says("handle_collecting_items", "error", last.kb)
               /\ UNCHANGED <<fsm_state, pending_item>>
               /\ KeepOrder
          ELSE IF item_data.quantity = NoNum
          THEN /\ pending_item' = item_data.product
               /\ Says("handle_collecting_items", "ask_quantity", last.kb)
               /\ UNCHANGED fsm_state
               /\ KeepOrder
          ELSE /\ AddedWithinBound(order, OrderItem(item_data.product, item_data.quantity))
               /\ save_order_to_state(
                      Order_add_item(order, OrderItem(item_data.product, item_data.quantity)))
               /\ Says("handle_collecting_items", "added", last.kb)
               /\ UNCHANGED <<fsm_state, pending_item>>
       /\ UNCHANGED editing_item_index
       /\ KeepEnv

(***************************************************************************)
(* src/bot/bot.py and src/main.py: Dispatcher(storage=MemoryStorage()) and *)
(* dp.start_polling(bot).  Every update is handled in a task of its own    *)
(* with the FSMContext of its user; no events isolation is configured, so  *)
(* a task that waits for the retriever lets the next update in.            *)
(***************************************************************************)
Users == {"a", "b"}

\* fault injection for C26: one key for every user
SharedKey(u) == "a"

\* the key MemoryStorage files the state and data of a user's chat under
StorageKey(u) == u

Keys == {StorageKey(u) : u \in Users}

NoSession ==
    [state |-> NONE, order |-> NoOrderData, editing_item_index |-> NoNum,
     pending_item |-> NoProduct]

\* what the FSMContext of the update in hand reads
Loaded ==
    [state |-> fsm_state, order |-> data_order, editing_item_index |-> editing_item_index,
     pending_item |-> pending_item]

\* the state and data MemoryStorage holds for a user
SessionOf(u) == IF StorageKey(u) = StorageKey(user) THEN Loaded ELSE storage[StorageKey(u)]

MaxTasks == 2
TaskIds == 1..MaxTasks
NoTask ==
    [pc |-> "idle", user |-> NONE,
     text |-> [done |-> FALSE, product |-> NoProduct,
               qty |-> [num |-> FALSE, neg |-> FALSE, q |-> 0]]]

\* a bot with one user and no update in processing
OneUser ==
    /\ user = "a"
    /\ storage = [k \in Keys |-> NoSession]
    /\ tasks = [t \in TaskIds |-> NoTask]

\* FSMContextMiddleware: the next update is one of user u, and its handler
\* gets the FSMContext of StorageKey(u)
resolve_context(u) ==
    /\ u # user
    /\ user' = u
    /\ storage' = [storage EXCEPT ![StorageKey(user)] = Loaded]
    /\ LET session == IF StorageKey(u) = StorageKey(user) THEN Loaded
                      ELSE storage[StorageKey(u)]
       IN /\ fsm_state' = session.state
          /\ data_order' = session.order
          /\ editing_item_index' = session.editing_item_index
          /\ pending_item' = session.pending_item
    /\ UNCHANGED <<last, today, nextId, exported, notified, cancelled, old_buttons,
                   submitted, turn, agg, tasks, validated>>

\* handle_collecting_items as the task of one update, up to the point where
\* it waits: a text sent to parse_item_from_text with a product name in it
\* waits in retriever.retrieve, after data.get("pending_item") was read; every
\* other text is handled without a wait between its reads and its writes
start_collecting_items(t, text) ==
    /\ tasks[t].pc = "idle"
    /\ fsm_state = "collecting_items"
    /\ IF text.done \/ pending_item # NoProduct \/ text.product = NoProduct
       THEN handle_collecting_items(text)
       ELSE /\ tasks' = [tasks EXCEPT ![t] = [pc |-> "retrieve", user |-> user, text |-> text]]
            /\ UNCHANGED <<fsm_state, data_order, editing_item_index, pending_item, last,
                           today, nextId, exported, notified, cancelled, old_buttons,
                           submitted, turn, agg, user, storage, validated>>

\* the rest of handle_collecting_items once retriever.retrieve has returned
resume_collecting_items(t) ==
    LET order == CurrentOrder
        item_data == parse_item_from_text(tasks[t].text)
    IN /\ tasks[t].pc = "retrieve"
       /\ tasks[t].user = user
       /\ tasks' = [tasks EXCEPT ![t] = NoTask]
       /\ IF item_data.quantity = NoNum
          THEN /\ pending_item' = item_data.product
               /\ Says("handle_collecting_items", "ask_quantity", last.kb)
               /\ KeepOrder
          ELSE /\ AddedWithinBound(order, OrderItem(item_data.product, item_data.quantity))
               /\ save_order_to_state(
                      Order_add_item(order, OrderItem(item_data.product, item_data.quantity)))
               /\ Says("handle_collecting_items", "added", last.kb)
               /\ UNCHANGED pending_item
       /\ UNCHANGED <<fsm_state, editing_item_index, today, exported, notified, cancelled,
                      old_buttons, submitted, agg, user, storage, validated>>

handle_new_order ==
    /\ Pressed(Btn("order:new"))
    /\ fsm_state' = NONE
    /\ ClearData
    /\ Says("handle_new_order", "prompt", NoKeyboard)
    /\ UNCHANGED nextId
    /\ KeepEnv

handle_contact_manager ==
    /\ Pressed(Btn("contact:manager"))
    /\ Says("handle_contact_manager", "contacts", last.kb)
    /\ UNCHANGED <<fsm_state, data_order, editing_item_index, pending_item, nextId>>
    /\ KeepEnv

\* data["saved_address"] is written nowhere, so the handler stores nothing
handle_use_saved_address ==
    /\ Pressed(BtnS("order:use_saved", "address"))
    /\ fsm_state' = "entering_date"
    /\ Says("handle_use_saved_address", "prompt", KbN("date_quick", today))
    /\ UNCHANGED <<data_order, editing_item_index, pending_item, nextId>>
    /\ KeepEnv

handle_enter_new_address ==
    /\ Pressed(BtnS("order:enter_new", "address"))
    /\ fsm_state' = "entering_address"
    /\ Says("handle_enter_new_address", "prompt", Kb("address_input"))
    /\ UNCHANGED <<data_order, editing_item_index, pending_item, nextId>>
    /\ KeepEnv

(***************************************************************************)
(* src/core/orders/intent.py: tier 1, the two pattern checks.  A text is   *)
(* the sequence of its words, lower case, punctuation dropped.             *)
(***************************************************************************)
IsNumber(w) == w \in {"10"}                                     \* \d+
IsKg(w) == w \in {"kg", "kilogramm"}                            \* (кг|килограмм)
StartsOform(w) == w \in {"oformit", "oformlyaj", "oformlyaem"}  \* оформ...
StartsZakaz(w) == w \in {"zakazat", "zakazyvayu", "zakazyvaj"}  \* заказ...

\* ORDER_PATTERN.search(text): one of ORDER_PATTERNS somewhere in the text
quick_order_check(text) ==
    \E k \in 1..Len(text) :
        LET has(n) == k + n <= Len(text)
        IN \/ text[k] = "hochu" /\ has(1) /\ text[k + 1] = "zakazat"
           \/ text[k] = "hochu" /\ has(2) /\ IsNumber(text[k + 2])
           \/ text[k] \in {"zakazhu", "vozmu", "kuplyu", "beru"} /\ has(1)
           \/ text[k] = "mne" /\ has(2) /\ text[k + 1] \in {"nuzhno", "nuzhna"}
           \/ text[k] \in {"nuzhno", "nado"} /\ has(2)
                  /\ IsNumber(text[k + 1]) /\ IsKg(text[k + 2])
           \/ IsNumber(text[k]) /\ has(2) /\ IsKg(text[k + 1])
           \/ has(2) /\ IsNumber(text[k + 1]) /\ IsKg(text[k + 2])

\* CONFIRMATION_PATTERN.search(text.strip())
is_order_confirmation(text) ==
    /\ text # <<>>
    /\ \/ text = <<"da">>
       \/ Len(text) >= 2 /\ text[1] = "da"
              /\ (text[2] \in {"hochu", "davaj"} \/ StartsOform(text[2]) \/ StartsZakaz(text[2]))
       \/ text = <<"hochu">>
       \/ text[1] \in {"oformlyaj", "oformlyaem", "oformit"}
       \/ text[1] \in {"zakazyvayu", "zakazyvaj"}
       \/ \E k \in 1..(Len(text) - 1) : text[k] = "hochu" /\ text[k + 1] = "oformit"
       \/ \E k \in 1..(Len(text) - 1) : text[k] = "davaj" /\ StartsOform(text[k + 1])

(***************************************************************************)
(* src/bot/handlers/price_query.py: handle_message gets the text messages  *)
(* no handler of the order router took.                                    *)
(***************************************************************************)
\* the wizard states a message handler of the order router is registered on
TextStates ==
    {"collecting_items", "editing_item", "entering_package_weight",
     "entering_address", "entering_date", "entering_time", "entering_name",
     "entering_phone", "entering_company", "entering_comment"}

RECENT == 6           \* history[-6:]
MIN_HISTORY == 2      \* len(history) < 2
MIN_CONFIDENCE == 7   \* intent.confidence >= 0.7, in tenths

\* a history entry: its role and the markers '₽', 'кг', 'Итого' its content has
Entry(role, marks) == [role |-> role, marks |-> marks]

\* history[-6:] as positions
Recent(history) == {i \in 1..Len(history) : i > Len(history) - RECENT}

\* fault injection for C20: the price check made on the messages of both roles
has_items_in_any_message(history) ==
    \E i \in Recent(history) :
        "rub" \in history[i].marks /\ history[i].marks \cap {"kg", "total"} # {}

has_items_in_context(history) ==
    \E i \in Recent(history) :
        /\ history[i].role = "assistant"
        /\ "rub" \in history[i].marks
        /\ ("kg" \in history[i].marks \/ "total" \in history[i].marks)

\* a key of the parsed JSON object, or the default of data.get
Get(data, key, default) == IF key \in DOMAIN data THEN data[key] ELSE default

\* detect_order_intent from what llm.generate gave: an exception, a text
\* without {...} and a text json.loads rejects all end in the last return
detect_order_intent(response) ==
    IF response.kind # "json"
    THEN NoIntent
    ELSE [is_order |-> Get(response.data, "is_order", FALSE),
          items |-> Get(response.data, "items", <<>>),
          confidence |-> Get(response.data, "confidence", 0)]

\* fault injection for C21: an extraction taken whatever its confidence
ExtractAnyConfidence(called, retrieved, intent) ==
    IF ~retrieved.ok \/ retrieved.products = {}
    THEN [started |-> FALSE, items |-> <<>>, called |-> called \cup {"retriever"}]
    ELSE [started |-> intent.is_order /\ intent.items # <<>>,
          items |-> intent.items,
          called |-> called \cup {"retriever", "llm"}]

\* the end of try_start_order and try_start_order_from_confirmation:
\* the retrieval, the products check, detect_order_intent and its check
Extract(called, retrieved, intent) ==
    IF ~retrieved.ok \/ retrieved.products = {}
    THEN [started |-> FALSE, items |-> <<>>, called |-> called \cup {"retriever"}]
    ELSE [started |-> /\ intent.is_order
                      /\ intent.items # <<>>
                      \* None >= 0.7 raises TypeError, caught by handle_message
                      /\ intent.confidence # NoNum
                      /\ intent.confidence >= MIN_CONFIDENCE,
          items |-> intent.items,
          called |-> called \cup {"retriever", "llm"}]

try_start_order_from_confirmation(history, retrieved, intent) ==
    IF Len(history) < MIN_HISTORY \/ ~has_items_in_context(history)
    THEN [started |-> FALSE, items |-> <<>>, called |-> {"history"}]
    ELSE Extract({"history"}, retrieved, intent)

try_start_order(history, retrieved, intent) == Extract({"history"}, retrieved, intent)

\* fault injection for C18: a state check that never finds an order state
InNoOrderState == FALSE

\* current_state and "OrderStates" in str(current_state)
InOrderState == fsm_state # NONE

\* fault injection for C19: a first tier that lets every text through
OrderTier(text) == TRUE

\* the elif of handle_message
OrderPatternTier(text) == quick_order_check(text)

\* handle_message(text) with what its collaborators return: the stored
\* history, the retriever's result and the intent the extraction reads
handle_message(text, history, retrieved, intent) ==
    /\ fsm_state \notin TextStates
    /\ IF text = <<>> \/ InOrderState
       THEN /\ Says("handle_message", "none", last.kb)
            /\ UNCHANGED <<fsm_state, data_order, editing_item_index, pending_item, nextId>>
       ELSE LET r == IF is_order_confirmation(text)
                     THEN try_start_order_from_confirmation(history, retrieved, intent)
                     ELSE IF OrderPatternTier(text)
                          THEN try_start_order(history, retrieved, intent)
                          ELSE [started |-> FALSE, items |-> <<>>, called |-> {}]
                heard(called) ==
                    [text |-> text,
                     history |-> IF is_order_confirmation(text) THEN history ELSE <<>>,
                     items |-> IF r.started THEN r.items ELSE <<>>,
                     called |-> called]
                chat == last' = [h |-> "handle_message", reply |-> "chat", kb |-> last.kb]
            IN IF r.started /\ CartOutcome(r.items) = "done"
               THEN /\ start_order_from_cart(r.items)
                    /\ turn' = heard(r.called)
               ELSE IF r.started /\ CartOutcome(r.items) = "raised_after_save"
               THEN \* the except of lines 70-72 catches what format_items_summary raised
                    /\ cart_saved(r.items)
                    /\ chat
                    /\ turn' = heard(r.called \cup {"chat"})
               ELSE /\ chat
                    /\ turn' = heard(r.called \cup {"chat"})
                    /\ UNCHANGED <<fsm_state, data_order, editing_item_index,
                                   pending_item, nextId>>
    /\ KeepEnv

\* the texts, retrievals and intents of the session as a whole
PlainText == <<"chernika">>
OrderText == <<"hochu", "chernika", "10">>
NoProducts == [ok |-> TRUE, products |-> {}]
Found == [ok |-> TRUE, products |-> Catalog]
OrderIntent(items) == [is_order |-> TRUE, items |-> items, confidence |-> 9]

\* in a wizard state: the handler returns at once
handle_message_in_order ==
    /\ fsm_state # NONE
    /\ handle_message(PlainText, <<>>, NoProducts, NoIntent)

\* outside the wizard, no order started: the chat pipeline answers
handle_message_chat ==
    /\ fsm_state = NONE
    /\ handle_message(PlainText, <<>>, NoProducts, NoIntent)

\* outside the wizard, an intent with items accepted: the order is seeded
handle_message_order(items) ==
    /\ fsm_state = NONE
    /\ handle_message(OrderText, <<>>, Found, OrderIntent(items))

(***************************************************************************)
(* The inputs the user and the collaborators supply.  Each specification   *)
(* below draws them from its own small sets: the session as a whole with   *)
(* one value per field, the item list and the delivery steps with the      *)
(* values their branches distinguish.                                      *)
(***************************************************************************)
Text(cls, len) == [cls |-> cls, len |-> len]
QtyText(num, neg, q) == [num |-> num, neg |-> neg, q |-> q]
JunkQty == QtyText(FALSE, FALSE, 0)
ItemText(done, product, qty) == [done |-> done, product |-> product, qty |-> qty]

\* the products the user names in a message
Asked == CHOOSE p \in Catalog : p.form = "frozen"
Other == CHOOSE p \in Catalog : p # Asked

\* item indices carried by the buttons the user presses
Indices == 0..(MaxItems - 1)

\* "600", "0.3", "-600", "1000.1", "many"
QuantityTexts ==
    {QtyText(TRUE, FALSE, 6000), QtyText(TRUE, FALSE, 3), QtyText(TRUE, TRUE, 6000),
     QtyText(TRUE, FALSE, 10001), JunkQty}

\* "10", "0.5", "60", "heavy"
WeightTexts ==
    {QtyText(TRUE, FALSE, 100), QtyText(TRUE, FALSE, 5), QtyText(TRUE, FALSE, 600), JunkQty}

AddressTexts == {Text("letters", 25), Text("letters", 4), Text("letters", 0)}

DateText(k, d) == [k |-> k, d |-> d]
\* with today a Thursday: yesterday, today, the Sunday in 31 days,
\* yesterday without a year, unreadable
RejectedDateTexts ==
    {DateText("full", today - 1), DateText("full", today), DateText("full", today + 31),
     DateText("noyear", today - 1), DateText("junk", 0)}
\* Friday and "завтра"
WeekdayTexts == {DateText("full", today + 1), DateText("word", 1)}
\* Saturday, with and without the year, and "послезавтра"
WeekendTexts ==
    {DateText("full", today + 2), DateText("noyear", today + 2), DateText("word", 2)}

TimeText(k, slot, h1, m1, h2, m2) ==
    [k |-> k, slot |-> slot, h1 |-> h1, m1 |-> m1, h2 |-> h2, m2 |-> m2]
\* "утро", "8:00-12:00", "7:00-12:00", "10:00-19:00", "14-10", "later"
TimeTexts ==
    {TimeText("slot", "morning", 0, 0, 0, 0), TimeText("range", "", 8, 0, 12, 0),
     TimeText("range", "", 7, 0, 12, 0), TimeText("range", "", 10, 0, 19, 0),
     TimeText("range", "", 14, 0, 10, 0), TimeText("junk", "", 0, 0, 0, 0)}

\* the name of the Telegram profile, "Я", a text of 101 letters, a phone number
NameTexts == {TelegramName, Text("letters", 1), Text("letters", 101), Text("phone", 11)}

PhoneText(cls, len, digits) == [cls |-> cls, len |-> len, digits |-> digits]
\* "89121234567", "+7 912 123-45-67", "12345", "call me", ""
PhoneTexts ==
    {PhoneText("phone", 11, 10), PhoneText("phone", 16, 10), PhoneText("phone", 5, 5),
     PhoneText("letters", 7, 0), PhoneText("letters", 0, 0)}

CompanyTexts == {Text("letters", 8)}
CommentTexts == {Text("letters", 12)}

(***************************************************************************)
(* The session                                                             *)
(***************************************************************************)
FirstDay == 3

\* an Order object on which no method was called yet
NoCalls(order) ==
    [order |-> order, adds |-> <<>>, only_adds |-> TRUE, call |-> NONE, returned |-> NONE]

Init ==
    /\ fsm_state = NONE
    /\ data_order = NoOrderData
    /\ editing_item_index = NoNum
    /\ pending_item = NoProduct
    /\ last = [h |-> "none", reply |-> "none", kb |-> NoKeyboard]
    /\ today = FirstDay
    /\ nextId = 0
    /\ exported = {}
    /\ notified = {}
    /\ cancelled = {}
    /\ old_buttons = DeadButtons
    /\ submitted = NoSubmit
    /\ turn = NoTurn
    /\ agg = NoCalls(Order(0))
    /\ OneUser
    /\ validated = NoCall

\* one update of the whole session: every handler, one value per field
Next ==
    \/ handle_message_in_order
    \/ handle_message_chat
    \/ handle_message_order(<<[product |-> Asked, quantity |-> 6000]>>)
    \/ handle_order_start
    \/ handle_back_to_items
    \/ \E i \in Indices : handle_edit_item(i)
    \/ \E i \in Indices : handle_delete_item_request(i)
    \/ \E i \in Indices : handle_confirm_delete(i)
    \/ \E i \in Indices : handle_change_quantity_request(i)
    \/ \E text \in QuantityTexts : handle_quantity_input(text)
    \/ handle_confirm_items
    \/ handle_packaging_selected("box")
    \/ handle_back_to_packaging
    \/ handle_package_weight_selected("custom")
    \/ \E text \in WeightTexts : handle_package_weight_input(text)
    \/ handle_delivery_selected
    \/ handle_pickup_selected
    \/ handle_back_to_delivery
    \/ \E text \in AddressTexts : handle_address_input(text)
    \/ handle_date_selection_custom
    \/ handle_date_selection(today + 2)
    \/ handle_back_to_date
    \/ handle_date_confirm(today + 2)
    \/ \E text \in RejectedDateTexts \cup WeekendTexts : handle_date_input(text)
    \/ handle_time_selection_custom
    \/ handle_time_selection("08:00-12:00")
    \/ handle_back_to_time
    \/ \E text \in TimeTexts : handle_time_input(text)
    \/ handle_use_saved_name
    \/ handle_enter_new_name
    \/ handle_back_to_name
    \/ \E text \in NameTexts : handle_name_input(text)
    \/ handle_back_to_phone
    \/ handle_use_saved_phone
    \/ handle_enter_new_phone
    \/ \E text \in PhoneTexts : handle_phone_input(text)
    \/ handle_back_to_company
    \/ handle_skip_company
    \/ \E text \in CompanyTexts : handle_company_input(text)
    \/ handle_skip_comment
    \/ \E text \in CommentTexts : handle_comment_input(text)
    \/ \E export_ok \in BOOLEAN : handle_order_submit(export_ok, {})
    \/ handle_cancel_request
    \/ handle_confirm_cancel
    \/ handle_continue_order
    \/ handle_edit_items
    \/ handle_edit_packaging
    \/ handle_edit_delivery
    \/ handle_edit_contact
    \/ handle_edit_comment
    \/ handle_add_more
    \/ handle_add_item
    \/ handle_collecting_items(ItemText(TRUE, NoProduct, JunkQty))
    \/ handle_collecting_items(ItemText(FALSE, NoProduct, JunkQty))
    \/ handle_new_order
    \/ handle_contact_manager
    \/ handle_use_saved_address
    \/ handle_enter_new_address

Spec == Init /\ [][Next]_vars

(***************************************************************************)
(* The item list: the handlers of collecting_items, editing_item and       *)
(* confirming_items with the messages and intents that add, merge, change  *)
(* and delete lines.  The chat holds older item lists.                     *)
(***************************************************************************)
\* quantities of the items of a detected intent
IntentQty == {6000}
IntentItems ==
    {<<[product |-> Asked, quantity |-> q]>> : q \in IntentQty}
        \cup {<<[product |-> Asked, quantity |-> q], [product |-> Other, quantity |-> q]>> :
                 q \in IntentQty}

\* "готово", and a known or unknown product with "600 кг", "1000.1 кг" or no number
ItemTexts ==
    {ItemText(TRUE, NoProduct, JunkQty)}
        \cup {ItemText(FALSE, p, q) :
                 p \in Catalog \cup {NoProduct},
                 q \in {QtyText(TRUE, FALSE, 6000), QtyText(TRUE, FALSE, 10001), JunkQty}}

ItemButtons ==
    get_items_confirmation_keyboard(MaxItems)
        \cup UNION {get_edit_item_keyboard(i) \cup get_delete_confirmation_keyboard(i) :
                       i \in Indices}

InitItems ==
    /\ fsm_state = NONE
    /\ data_order = NoOrderData
    /\ editing_item_index = NoNum
    /\ pending_item = NoProduct
    /\ last = [h |-> "none", reply |-> "none", kb |-> NoKeyboard]
    /\ today = FirstDay
    /\ nextId = 0
    /\ exported = {}
    /\ notified = {}
    /\ cancelled = {}
    /\ old_buttons = ItemButtons
    /\ submitted = NoSubmit
    /\ turn = NoTurn
    /\ agg = NoCalls(Order(0))
    /\ OneUser
    /\ validated = NoCall

NextItems ==
    \/ \E items \in IntentItems : handle_message_order(items)
    \/ handle_back_to_items
    \/ \E i \in Indices : handle_edit_item(i)
    \/ \E i \in Indices : handle_delete_item_request(i)
    \/ \E i \in Indices : handle_confirm_delete(i)
    \/ \E i \in Indices : handle_change_quantity_request(i)
    \/ \E text \in QuantityTexts : handle_quantity_input(text)
    \/ handle_confirm_items
    \/ handle_add_item
    \/ \E text \in ItemTexts : handle_collecting_items(text)
    \/ handle_cancel_request
    \/ handle_confirm_cancel

SpecItems == InitItems /\ [][NextItems]_vars

(***************************************************************************)
(* Packaging and delivery: the handlers from selecting_packaging to        *)
(* entering_time for an order of one line, with every packaging type,      *)
(* both delivery types, weekdays and weekends.  The chat holds older       *)
(* keyboards of these steps.                                               *)
(***************************************************************************)
PressedWeights == WeightButtons \ {"250"}
PressedDates == {today + 1, today + 2}
PressedSlots == {"08:00-12:00", "08:00-18:00"}
DateTexts == RejectedDateTexts \cup WeekdayTexts \cup WeekendTexts

DeliveryButtons ==
    get_packaging_type_keyboard \cup get_package_weight_keyboard
        \cup get_delivery_type_keyboard \cup get_address_input_keyboard
        \cup get_date_quick_keyboard(today) \cup get_weekend_warning_keyboard(today + 2)
        \cup get_time_quick_keyboard

InitDelivery ==
    /\ fsm_state = NONE
    /\ data_order = NoOrderData
    /\ editing_item_index = NoNum
    /\ pending_item = NoProduct
    /\ last = [h |-> "none", reply |-> "none", kb |-> NoKeyboard]
    /\ today = FirstDay
    /\ nextId = 0
    /\ exported = {}
    /\ notified = {}
    /\ cancelled = {}
    /\ old_buttons = DeliveryButtons
    /\ submitted = NoSubmit
    /\ turn = NoTurn
    /\ agg = NoCalls(Order(0))
    /\ OneUser
    /\ validated = NoCall

NextDelivery ==
    \/ handle_message_order(<<[product |-> Asked, quantity |-> 6000]>>)
    \/ handle_confirm_items
    \/ handle_back_to_items
    \/ \E t \in PackagingType : handle_packaging_selected(t)
    \/ handle_back_to_packaging
    \/ \E w \in PressedWeights : handle_package_weight_selected(w)
    \/ \E text \in WeightTexts : handle_package_weight_input(text)
    \/ handle_delivery_selected
    \/ handle_pickup_selected
    \/ handle_back_to_delivery
    \/ \E text \in AddressTexts : handle_address_input(text)
    \/ handle_date_selection_custom
    \/ \E d \in PressedDates : handle_date_selection(d)
    \/ handle_back_to_date
    \/ handle_date_confirm(today + 2)
    \/ \E text \in DateTexts : handle_date_input(text)
    \/ handle_time_selection_custom
    \/ \E slot \in PressedSlots : handle_time_selection(slot)
    \/ handle_back_to_time
    \/ \E text \in TimeTexts : handle_time_input(text)

SpecDelivery == InitDelivery /\ [][NextDelivery]_vars

(***************************************************************************)
(* The Order aggregate on its own: add_item, remove_item and               *)
(* update_item_quantity called in any order on an Order object, empty or   *)
(* with every optional field set, and the object saved to the session and  *)
(* rebuilt from it.                                                        *)
(***************************************************************************)
MaxCalls == 3         \* add_item calls made on one Order object

\* a product that shares its form with one of the catalog and its name with none
Plum == [name |-> "plum", form |-> "frozen", price |-> 4]

\* the items the callers pass to add_item: 0.5 kg or 600 kg of a product
AggItems == {OrderItem(p, q) : p \in Catalog \cup {Plum}, q \in {5, 6000}}

\* an order as the wizard completes it: every optional field is set
FullOrder ==
    [Order(1) EXCEPT
        !.customer = [CustomerInfo(TelegramName) EXCEPT
                         !.phone = "+7 912 123-45-67", !.company = Text("letters", 8)],
        !.delivery = [DeliveryInfo EXCEPT
                         !.address = Text("letters", 25), !.desired_date = FirstDay + 1,
                         !.desired_time_from = 480, !.desired_time_to = 720],
        !.packaging = [PackagingInfo EXCEPT !.packaging_type = "box", !.weight_per_unit = 100],
        !.comment = Text("letters", 12)]

KeepSession ==
    UNCHANGED <<fsm_state, data_order, editing_item_index, pending_item, last, today,
                nextId, exported, notified, cancelled, old_buttons, submitted, turn,
                user, storage, tasks, validated>>

\* order.add_item(item)
add_item(item) ==
    /\ Len(agg.adds) < MaxCalls
    /\ agg' = [order |-> Order_add_item(agg.order, item),
               adds |-> Append(agg.adds, item),
               only_adds |-> agg.only_adds,
               call |-> "add_item",
               returned |-> NONE]
    /\ KeepSession

\* order.remove_item(index)
remove_item(index) ==
    LET r == Order_remove_item(agg.order, index)
    IN /\ agg' = [order |-> r.order,
                  adds |-> agg.adds,
                  only_adds |-> agg.only_adds /\ ~r.ok,
                  call |-> "remove_item",
                  returned |-> IF r.ok THEN "True" ELSE "False"]
       /\ KeepSession

\* order.update_item_quantity(index, quantity)
update_item_quantity(index, quantity) ==
    LET r == Order_update_item_quantity(agg.order, index, quantity)
    IN /\ agg' = [order |-> r.order,
                  adds |-> agg.adds,
                  only_adds |-> agg.only_adds /\ ~r.ok,
                  call |-> "update_item_quantity",
                  returned |-> IF r.ok THEN "True" ELSE "False"]
       /\ KeepSession

\* save_order_to_state(state, order) and then get_or_create_order(state):
\* the object the next handler works on
save_and_load ==
    /\ agg' = [agg EXCEPT !.order = get_or_create_order(Order_to_dict(agg.order), 0),
                          !.call = "save_and_load",
                          !.returned = NONE]
    /\ KeepSession

InitOrder ==
    /\ fsm_state = NONE
    /\ data_order = NoOrderData
    /\ editing_item_index = NoNum
    /\ pending_item = NoProduct
    /\ last = [h |-> "none", reply |-> "none", kb |-> NoKeyboard]
    /\ today = FirstDay
    /\ nextId = 0
    /\ exported = {}
    /\ notified = {}
    /\ cancelled = {}
    /\ old_buttons = {}
    /\ submitted = NoSubmit
    /\ turn = NoTurn
    /\ agg \in {NoCalls(Order(1)), NoCalls(FullOrder)}
    /\ OneUser
    /\ validated = NoCall

NextOrder ==
    \/ \E item \in AggItems : add_item(item)
    \/ \E index \in -1..MaxCalls : remove_item(index)
    \/ \E index \in -1..MaxCalls, quantity \in {0 - 5, 0, 3, 6000} :
           update_item_quantity(index, quantity)
    \/ save_and_load

SpecOrder == InitOrder /\ [][NextOrder]_vars

(***************************************************************************)
(* The submission: the wizard has shown the summary of an order and the    *)
(* user presses its buttons; every export and send outcome is followed,    *)
(* and the order:submit callback can be delivered again.                   *)
(***************************************************************************)
\* the order the wizard has collected when it shows the summary
WizardOrder ==
    [Order(1) EXCEPT
        !.items = <<OrderItem(Asked, 6000)>>,
        !.customer = [CustomerInfo(TelegramName) EXCEPT !.phone = "+7 912 123-45-67"],
        !.delivery = [DeliveryInfo EXCEPT !.delivery_type = "pickup",
                                          !.desired_date = FirstDay + 2],
        !.packaging = [PackagingInfo EXCEPT !.packaging_type = "box",
                                            !.weight_per_unit = 100]]

InitSubmit ==
    /\ fsm_state = "final_confirmation"
    /\ data_order = Order_to_dict(WizardOrder)
    /\ editing_item_index = NoNum
    /\ pending_item = NoProduct
    /\ last = [h |-> "handle_skip_comment", reply |-> "summary",
               kb |-> Kb("final_confirmation")]
    /\ today = FirstDay
    /\ nextId = 1
    /\ exported = {}
    /\ notified = {}
    /\ cancelled = {}
    /\ old_buttons = {Btn("order:submit")}
    /\ submitted = NoSubmit
    /\ turn = NoTurn
    /\ agg = NoCalls(Order(0))
    /\ OneUser
    /\ validated = NoCall

NextSubmit ==
    \/ \E export_ok \in BOOLEAN, failed \in SUBSET ManagerIds :
           handle_order_submit(export_ok, failed)
    \/ handle_cancel_request
    \/ handle_confirm_cancel
    \/ handle_continue_order
    \/ handle_edit_comment
    \/ handle_skip_comment
    \/ \E text \in CommentTexts : handle_comment_input(text)
    \/ handle_new_order
    \/ handle_contact_manager
    \/ handle_message_in_order
    \/ handle_message_chat

SpecSubmit == InitSubmit /\ [][NextSubmit]_vars

(***************************************************************************)
(* The conversation: text messages of every tier-1 class with the          *)
(* histories, retrievals and intents the handler can be given, and the     *)
(* first buttons of the wizard an accepted intent starts.                  *)
(***************************************************************************)
ChatTexts ==
    {<<>>,
     <<"da">>, <<"hochu">>, <<"da", "hochu">>, <<"da", "oformlyaj">>, <<"oformit">>,
     <<"zakazyvayu">>, <<"hochu", "oformit">>, <<"davaj", "oformit">>,
     <<"da", "hochu", "chernika", "10", "kg">>,
     <<"hochu", "zakazat">>, <<"hochu", "chernika", "10">>, <<"beru", "chernika">>,
     <<"mne", "nuzhno", "chernika">>, <<"nuzhno", "10", "kg">>,
     <<"10", "kg", "chernika">>, <<"chernika", "10", "kg">>,
     <<"chernika">>, <<"da", "chernika">>, <<"hochu", "chernika">>,
     <<"skolko", "stoit", "chernika">>}

HistoryEntries ==
    {Entry("user", {}), Entry("user", {"rub", "kg"})}
        \cup {Entry("assistant", m) :
                 m \in {{}, {"rub"}, {"kg", "total"}, {"rub", "kg"}, {"rub", "total"}}}

\* n plain entries, the user's and the assistant's in turn
Padding(n) ==
    [i \in 1..n |-> IF i % 2 = 1 THEN Entry("user", {}) ELSE Entry("assistant", {})]

\* entries that quote a price
PricedEntries ==
    {Entry("user", {"rub", "kg"}), Entry("assistant", {"rub", "kg"}),
     Entry("assistant", {"rub", "total"})}

\* no history, one entry, two entries, and a priced entry just inside and
\* just outside history[-6:]
Histories ==
    {<<>>, <<Entry("user", {})>>, <<Entry("assistant", {"rub", "kg"})>>}
        \cup {<<Entry("user", {}), e>> : e \in HistoryEntries}
        \cup {<<e>> \o Padding(RECENT - 1) : e \in PricedEntries}
        \cup {<<e>> \o Padding(RECENT) : e \in PricedEntries}

\* the retriever raises, finds nothing, finds the catalog
RetrieverResults == {[ok |-> FALSE, products |-> {}], NoProducts, Found}

Intents ==
    {NoIntent,
     [is_order |-> TRUE, items |-> <<>>, confidence |-> 9]}
        \cup {[is_order |-> TRUE, items |-> <<[product |-> Asked, quantity |-> 100]>>,
               confidence |-> c] : c \in {6, 7}}
        \cup {OrderIntent(<<[product |-> Asked, quantity |-> 100],
                            [product |-> Other, quantity |-> 5],
                            [product |-> Asked, quantity |-> 5]>>)}

InitChat ==
    /\ fsm_state = NONE
    /\ data_order = NoOrderData
    /\ editing_item_index = NoNum
    /\ pending_item = NoProduct
    /\ last = [h |-> "none", reply |-> "none", kb |-> NoKeyboard]
    /\ today = FirstDay
    /\ nextId = 0
    /\ exported = {}
    /\ notified = {}
    /\ cancelled = {}
    /\ old_buttons = {}
    /\ submitted = NoSubmit
    /\ turn = NoTurn
    /\ agg = NoCalls(Order(0))
    /\ OneUser
    /\ validated = NoCall

NextChat ==
    \/ /\ fsm_state = NONE
       /\ \E text \in ChatTexts, history \in Histories,
             retrieved \in RetrieverResults, intent \in Intents :
              handle_message(text, history, retrieved, intent)
    \/ handle_message_in_order
    \/ handle_confirm_items
    \/ handle_back_to_items
    \/ handle_cancel_request
    \/ handle_confirm_cancel
    \/ handle_continue_order

SpecChat == InitChat /\ [][NextChat]_vars

(***************************************************************************)
(* The extraction: what the text generation can give detect_order_intent,  *)
(* well formed or not, for messages of each tier-1 class.                  *)
(***************************************************************************)
IntentTexts ==
    {<<"da">>, <<"oformit">>, OrderText, PlainText, <<"da", "hochu", "chernika", "10", "kg">>}

IntentHistories ==
    {<<>>, <<Entry("user", {}), Entry("assistant", {"rub", "kg"})>>}

Json(data) == [kind |-> "json", data |-> data]
Line == [product |-> Asked, quantity |-> 100]

\* the answers that are the expected object
GoodResponses ==
    {Json([is_order |-> FALSE, items |-> <<>>, confidence |-> 9]),
     Json([is_order |-> TRUE, items |-> <<>>, confidence |-> 9]),
     Json([is_order |-> FALSE, items |-> <<Line>>, confidence |-> 9])}
        \cup {Json([is_order |-> TRUE, items |-> items, confidence |-> c]) :
                 items \in {<<Line>>, <<Line, [product |-> Other, quantity |-> 5]>>},
                 c \in {6, 7}}

\* llm.generate raises; the content holds no {...}; json.loads rejects it;
\* the object lacks keys; a field is null where a value is expected
BadResponses ==
    {[kind |-> k, data |-> <<>>] : k \in {"raised", "no_json", "bad_json"}}
        \cup {Json([is_order |-> TRUE]),
              Json([is_order |-> TRUE, confidence |-> 9]),
              Json([is_order |-> TRUE, items |-> <<Line>>]),
              Json([items |-> <<Line>>, confidence |-> 9]),
              Json([is_order |-> TRUE, items |-> <<Line>>, confidence |-> NoNum]),
              Json([is_order |-> TRUE, items |-> <<[product |-> Asked]>>, confidence |-> 9]),
              Json([is_order |-> TRUE, items |-> <<[Line EXCEPT !.quantity = NoNum]>>,
                    confidence |-> 9]),
              Json([is_order |-> TRUE, items |-> <<[Line EXCEPT !.product.form = NONE]>>,
                    confidence |-> 9])}

Responses == GoodResponses \cup BadResponses

NextIntent ==
    \/ /\ fsm_state = NONE
       /\ \E text \in IntentTexts, history \in IntentHistories,
             retrieved \in RetrieverResults, response \in Responses :
              handle_message(text, history, retrieved, detect_order_intent(response))
    \/ handle_message_in_order
    \/ \E i \in Indices : handle_edit_item(i)
    \/ \E i \in Indices : handle_delete_item_request(i)
    \/ \E i \in Indices : handle_confirm_delete(i)
    \/ handle_confirm_items
    \/ handle_back_to_items
    \/ handle_add_item
    \/ handle_cancel_request
    \/ handle_confirm_cancel
    \/ handle_continue_order

SpecIntent == InitChat /\ [][NextIntent]_vars

(***************************************************************************)
(* Two users who are adding items, each with one line in the order, and    *)
(* the updates they send while an earlier one waits for the retriever.     *)
(***************************************************************************)
\* the session of a user who pressed 'order:add_item' with one line ordered
AddingSession(id) ==
    [state |-> "collecting_items",
     order |-> Order_to_dict([AddAll(Order(id), <<[product |-> Asked, quantity |-> 100]>>)
                                 EXCEPT !.customer = CustomerInfo(TelegramName)]),
     editing_item_index |-> NoNum,
     pending_item |-> NoProduct]

SessionTexts ==
    {ItemText(TRUE, NoProduct, JunkQty),
     ItemText(FALSE, Asked, JunkQty),
     ItemText(FALSE, Other, QtyText(TRUE, FALSE, 10000)),
     ItemText(FALSE, NoProduct, QtyText(TRUE, FALSE, 10000))}

InitSessions ==
    /\ user = "a"
    /\ storage = [k \in Keys |-> AddingSession(IF k = "a" THEN 1 ELSE 2)]
    /\ tasks = [t \in TaskIds |-> NoTask]
    /\ validated = NoCall
    /\ fsm_state = AddingSession(1).state
    /\ data_order = AddingSession(1).order
    /\ editing_item_index = NoNum
    /\ pending_item = NoProduct
    /\ last = [h |-> "handle_add_item", reply |-> "prompt", kb |-> NoKeyboard]
    /\ today = FirstDay
    /\ nextId = Cardinality(Users)
    /\ exported = {}
    /\ notified = {}
    /\ cancelled = {}
    /\ old_buttons = ItemButtons
    /\ submitted = NoSubmit
    /\ turn = NoTurn
    /\ agg = NoCalls(Order(0))

NextSessions ==
    \/ \E u \in Users : resolve_context(u)
    \/ \E t \in TaskIds, text \in SessionTexts : start_collecting_items(t, text)
    \/ \E t \in TaskIds : resume_collecting_items(t)
    \/ handle_add_item

SpecSessions == InitSessions /\ [][NextSessions]_vars

(***************************************************************************)
(* The validators of the delivery date and time as functions: every day of *)
(* a week as today, dates from the week before to six weeks ahead in each  *)
(* notation, and the times of day around the working hours.                *)
(***************************************************************************)
MaxAhead == 42
Todays == (FirstDay + 7)..(FirstDay + 13)

ValidatedDates(t) ==
    {DateText("full", d) : d \in (t - 7)..(t + MaxAhead)}
        \cup {DateText("noyear", d) : d \in {t - 1, t, t + 1, t + 2, t + 30, t + 31}}
        \cup {DateText("word", d) : d \in 0..2}
        \cup {DateText("junk", 0), DateText("empty", 0)}

Hours == {7, 8, 10, 16, 17, 18, 19, 24}
Minutes == {0, 30}

ValidatedTimes ==
    {TimeText("slot", w, 0, 0, 0, 0) : w \in DOMAIN predefined_slots}
        \cup {TimeText("single", "", h, m, 0, 0) : h \in Hours, m \in Minutes}
        \cup {TimeText("range", "", h1, m1, h2, m2) :
                 h1 \in Hours, h2 \in Hours, m1 \in Minutes, m2 \in Minutes}
        \cup {TimeText("junk", "", 0, 0, 0, 0)}

validate_date(text) ==
    /\ validated' = [fn |-> "DateValidator", text |-> text,
                     result |-> DateValidator_validate(text, today)]
    /\ UNCHANGED <<fsm_state, data_order, editing_item_index, pending_item, last, today,
                   nextId, exported, notified, cancelled, old_buttons, submitted, turn,
                   agg, user, storage, tasks>>

validate_time(text) ==
    /\ validated' = [fn |-> "TimeValidator", text |-> text,
                     result |-> TimeValidator_validate(text)]
    /\ UNCHANGED <<fsm_state, data_order, editing_item_index, pending_item, last, today,
                   nextId, exported, notified, cancelled, old_buttons, submitted, turn,
                   agg, user, storage, tasks>>

InitValidators ==
    /\ fsm_state = NONE
    /\ data_order = NoOrderData
    /\ editing_item_index = NoNum
    /\ pending_item = NoProduct
    /\ last = [h |-> "none", reply |-> "none", kb |-> NoKeyboard]
    /\ today \in Todays
    /\ nextId = 0
    /\ exported = {}
    /\ notified = {}
    /\ cancelled = {}
    /\ old_buttons = {}
    /\ submitted = NoSubmit
    /\ turn = NoTurn
    /\ agg = NoCalls(Order(0))
    /\ OneUser
    /\ validated = NoCall

NextValidators ==
    \/ \E text \in ValidatedDates(today) : validate_date(text)
    \/ \E text \in ValidatedTimes : validate_time(text)

SpecValidators == InitValidators /\ [][NextValidators]_vars

(***************************************************************************)
(* Properties.  A property about one handler names the handler's action,   *)
(* so that it speaks about the input the handler got.                      *)
(***************************************************************************)
\* the session data other than the wizard state
KeptData == UNCHANGED <<data_order, editing_item_index, pending_item>>

\* C1: choosing the packaging "any" stores the type with no weight per unit
\* and moves straight to selecting_delivery_type, never through
\* entering_package_weight; choosing "box" or "bag" stores the type and moves
\* to entering_package_weight.
C1_PackagingChoice ==
    [][\A t \in PackagingType :
          handle_packaging_selected(t) =>
              /\ data_order'.packaging.exists
              /\ data_order'.packaging.packaging_type = t
              /\ IF t = "any"
                 THEN /\ fsm_state' = "selecting_delivery_type"
                      /\ data_order'.packaging.weight_per_unit = NoNum
                 ELSE fsm_state' = "entering_package_weight"]_vars

\* "any" was chosen at the packaging step of an order with a line
C1_Witness ==
    /\ last.h = "handle_packaging_selected"
    /\ fsm_state = "selecting_delivery_type"
    /\ data_order.items # <<>>
    /\ data_order.packaging.packaging_type = "any"
    /\ data_order.packaging.weight_per_unit = NoNum

\* C2: choosing pickup records the delivery type pickup and moves to
\* entering_date, so entering_address is skipped; choosing delivery records
\* the type delivery and moves to entering_address.
C2_DeliveryChoice ==
    [][/\ handle_pickup_selected =>
              /\ fsm_state' = "entering_date"
              /\ data_order'.delivery.exists
              /\ data_order'.delivery.delivery_type = "pickup"
       /\ handle_delivery_selected =>
              /\ fsm_state' = "entering_address"
              /\ data_order'.delivery.exists
              /\ data_order'.delivery.delivery_type = "delivery"]_vars

\* pickup was chosen and the date is asked with no address entered
C2_Witness ==
    /\ last.h = "handle_pickup_selected"
    /\ fsm_state = "entering_date"
    /\ data_order.delivery.delivery_type = "pickup"
    /\ data_order.delivery.address = NoText

\* a typed date that reads as a Saturday or Sunday
TypedWeekend(text) ==
    /\ DateParsed(text, today) # NoNum
    /\ weekday(DateParsed(text, today)) \in WEEKEND_DAYS

\* a date the validator takes: from tomorrow to MAX_DAYS_AHEAD days ahead
InDateRange(d) == today + MIN_DAYS_AHEAD <= d /\ d <= today + MAX_DAYS_AHEAD

\* a Saturday or Sunday becomes the desired date only in handle_date_confirm,
\* which moves to entering_time
WeekendWrittenByConfirm ==
    (/\ data_order'.delivery.desired_date # data_order.delivery.desired_date
     /\ data_order'.delivery.desired_date # NoNum
     /\ weekday(data_order'.delivery.desired_date) \in WEEKEND_DAYS)
        => (last'.h = "handle_date_confirm" /\ fsm_state' = "entering_time")

\* a quick button with a weekend date changes neither the state nor the order
WeekendButtonWarns ==
    \A d \in PressedDates :
        (handle_date_selection(d) /\ weekday(d) \in WEEKEND_DAYS)
            => (UNCHANGED <<fsm_state, data_order>> /\ last'.reply = "weekend_warning")

\* C3 (as the validator has it): a Saturday or Sunday is written to
\* desired_date, and the wizard moved to entering_time, only by the weekend
\* confirmation; a weekend date chosen by quick button, or typed and lying
\* between tomorrow and 30 days ahead, changes neither desired_date nor the
\* wizard state and is answered with the weekend warning, not with an error.
C3_WeekendDatesInRange ==
    [][/\ WeekendWrittenByConfirm
       /\ WeekendButtonWarns
       /\ \A text \in DateTexts :
              (/\ handle_date_input(text)
               /\ TypedWeekend(text)
               /\ InDateRange(DateParsed(text, today)))
                  => (/\ UNCHANGED <<fsm_state, data_order>>
                      /\ last'.reply = "weekend_warning")]_vars

\* a confirmed Saturday is the desired date and the time is asked
C3_Witness ==
    /\ last.h = "handle_date_confirm"
    /\ fsm_state = "entering_time"
    /\ data_order.delivery.desired_date # NoNum
    /\ weekday(data_order.delivery.desired_date) \in WEEKEND_DAYS

\* C3 (as stated): a Saturday or Sunday is written to desired_date only by
\* the weekend confirmation; a weekend date chosen by quick button or typed
\* changes neither desired_date nor the wizard state, and no typed weekend
\* date is rejected as invalid.
C3_WeekendNeverRejected ==
    [][/\ WeekendWrittenByConfirm
       /\ WeekendButtonWarns
       /\ \A text \in DateTexts :
              (handle_date_input(text) /\ TypedWeekend(text))
                  => (/\ UNCHANGED <<fsm_state, data_order>>
                      /\ last'.reply # "error")]_vars

\* C4 (as stated): the wizard state becomes final_confirmation only in the
\* handlers that complete or skip the comment step.
C4_FinalOnlyAfterComment ==
    [][(fsm_state # "final_confirmation" /\ fsm_state' = "final_confirmation")
          => last'.h \in {"handle_skip_comment", "handle_comment_input"}]_vars

\* C5: the cancel request changes neither the wizard state nor the order;
\* its confirmation clears the state and the stored order; exports and
\* notifications are made by handle_order_submit only, and never for an
\* order that was cancelled.
C5_CancelDiscards ==
    [][/\ handle_cancel_request => (UNCHANGED fsm_state /\ KeptData)
       /\ handle_confirm_cancel =>
              /\ fsm_state' = NONE
              /\ data_order' = NoOrderData
              /\ editing_item_index' = NoNum
              /\ pending_item' = NoProduct
       /\ (exported' # exported \/ notified' # notified)
              => last'.h = "handle_order_submit"
       /\ cancelled' \cap (exported' \cup notified') = {}]_vars

\* an order was cancelled and the session is empty
C5_Witness ==
    /\ last.h = "handle_confirm_cancel"
    /\ cancelled # {}
    /\ fsm_state = NONE
    /\ ~data_order.exists

\* C6: at final_confirmation each edit action sets the wizard state to the
\* step of its section (items, packaging, delivery, contact, comment) and
\* leaves the stored order as it was.
C6_EditKeepsOrder ==
    [][fsm_state = "final_confirmation" =>
          /\ handle_edit_items => (fsm_state' = "confirming_items" /\ KeptData)
          /\ handle_edit_packaging => (fsm_state' = "selecting_packaging" /\ KeptData)
          /\ handle_edit_delivery => (fsm_state' = "selecting_delivery_type" /\ KeptData)
          /\ handle_edit_contact => (fsm_state' = "entering_name" /\ KeptData)
          /\ handle_edit_comment => (fsm_state' = "entering_comment" /\ KeptData)]_vars

\* the delivery section of a complete order is being edited
C6_Witness ==
    /\ last.h = "handle_edit_delivery"
    /\ fsm_state = "selecting_delivery_type"
    /\ data_order.items # <<>>
    /\ data_order.delivery.desired_time_from # NoNum
    /\ data_order.customer.phone # NONE

\* the keyboard each step shows, with its back button
StepKeyboard(step) ==
    CASE step = "selecting_packaging" -> Kb("packaging_type")
      [] step = "entering_package_weight" -> Kb("package_weight")
      [] step = "selecting_delivery_type" -> Kb("delivery_type")
      [] step = "entering_address" -> Kb("address_input")
      [] step = "entering_date" -> KbN("date_quick", today)
      [] step = "entering_time" -> Kb("time_quick")
      [] step = "entering_name" -> Kb("name_input")
      [] step = "entering_phone" -> Kb("phone_input")
      [] OTHER -> NoKeyboard

\* the step before a step in the flow the order has taken
PrecedingSteps(step, order) ==
    CASE step = "selecting_packaging" -> {"confirming_items"}
      [] step = "entering_package_weight" -> {"selecting_packaging"}
      [] step = "selecting_delivery_type" ->
             IF order.packaging.packaging_type = "any"
             THEN {"selecting_packaging"}
             ELSE {"selecting_packaging", "entering_package_weight"}
      [] step = "entering_address" -> {"selecting_delivery_type"}
      [] step = "entering_date" ->
             IF order.delivery.delivery_type = "pickup"
             THEN {"selecting_delivery_type"}
             ELSE {"entering_address"}
      [] step = "entering_time" -> {"entering_date"}
      [] step = "entering_name" -> {"entering_time"}
      [] step = "entering_phone" -> {"entering_name"}
      [] OTHER -> HandlerStates

\* the back handlers and the callback data they are registered for
BackButtons ==
    [handle_back_to_items |-> Btn("order:back_to_items"),
     handle_back_to_packaging |-> Btn("order:back_to_packaging"),
     handle_back_to_delivery |-> Btn("order:back_to_delivery"),
     handle_back_to_date |-> Btn("order:back_to_date"),
     handle_back_to_time |-> Btn("order:back_to_time"),
     handle_back_to_name |-> Btn("order:back_to_name")]

\* C7 (as stated): when a step shows its keyboard and the user presses the
\* back button on it, the wizard state becomes the step that precedes it for
\* the order's content (the packaging step before selecting_delivery_type,
\* entering_address before entering_date of a delivery order) and the stored
\* order does not change.
C7_BackToPrecedingStep ==
    [][(/\ last.kb = StepKeyboard(fsm_state)
        /\ last'.h \in DOMAIN BackButtons
        /\ BackButtons[last'.h] \in Buttons(last.kb))
          => (/\ fsm_state' \in PrecedingSteps(fsm_state, data_order)
              /\ KeptData)]_vars

\* C9: confirming the deletion of the order's only line clears the wizard
\* state and the stored order; confirming the deletion of a line while other
\* lines remain removes that line and no other, leaves the wizard state as
\* it is (confirming_items, where the item list is shown) and shows the item
\* list of the remaining lines.
C9_ConfirmDelete ==
    [][\A i \in Indices :
          (handle_confirm_delete(i) /\ data_order.exists /\ i < Len(data_order.items)) =>
              IF Len(data_order.items) = 1
              THEN /\ fsm_state' = NONE
                   /\ data_order' = NoOrderData
                   /\ editing_item_index' = NoNum
                   /\ pending_item' = NoProduct
              ELSE /\ Len(data_order'.items) = Len(data_order.items) - 1
                   /\ \A j \in 1..Len(data_order'.items) :
                          data_order'.items[j] =
                              data_order.items[IF j <= i THEN j ELSE j + 1]
                   /\ data_order' = [data_order EXCEPT !.items = data_order'.items]
                   /\ fsm_state' = fsm_state
                   /\ last'.reply = "items"
                   /\ last'.kb = KbN("items", Len(data_order'.items))]_vars

\* the first of two lines was deleted and the item list shows the other
C9_Witness ==
    /\ last.h = "handle_confirm_delete"
    /\ last.reply = "items"
    /\ fsm_state = "confirming_items"
    /\ Len(data_order.items) = 1
    /\ data_order.items[1].product_form = Other.form

\* C10 (as stated): every line of the stored order has a quantity between
\* 0.5 kg and 1000 kg.
C10_LineQuantityInRange ==
    \A i \in 1..Len(data_order.items) :
        /\ MIN_QUANTITY <= data_order.items[i].quantity_kg
        /\ data_order.items[i].quantity_kg <= MAX_QUANTITY

\* the rejection test of handle_package_weight_input: 1 kg to 50 kg
WeightRejected(text) ==
    FirstNumber(text) = NoNum \/ FirstNumber(text) < 10 \/ FirstNumber(text) > 500

\* the handler answered with its error and kept the state and the data
Reprompted == UNCHANGED fsm_state /\ KeptData /\ last'.reply = "error"

\* C8: in entering_address, entering_date, entering_time, entering_name,
\* entering_phone, entering_package_weight and editing_item a text the step's
\* validation rejects is answered with the step's error and leaves the
\* wizard state and the stored order unchanged.
C8_RejectedInputKeepsStep ==
    [][/\ \A text \in AddressTexts :
              (handle_address_input(text) /\ ~AddressValidator_validate(text).ok)
                  => Reprompted
       /\ \A text \in RejectedDateTexts \cup WeekendTexts :
              (handle_date_input(text) /\ ~DateValidator_validate(text, today).ok)
                  => Reprompted
       /\ \A text \in TimeTexts :
              (handle_time_input(text) /\ ~TimeValidator_validate(text).ok)
                  => Reprompted
       /\ \A text \in NameTexts :
              (handle_name_input(text) /\ ~NameAccepted(text)) => Reprompted
       /\ \A text \in PhoneTexts :
              (handle_phone_input(text) /\ ~PhoneValidator_validate(text).ok)
                  => Reprompted
       /\ \A text \in WeightTexts :
              (handle_package_weight_input(text) /\ WeightRejected(text))
                  => Reprompted
       /\ \A text \in QuantityTexts :
              (handle_quantity_input(text) /\ ~QuantityValidator_validate(text).ok)
                  => Reprompted]_vars

\* a short address was rejected at entering_address of a delivery order
C8_Witness ==
    /\ last.h = "handle_address_input"
    /\ last.reply = "error"
    /\ fsm_state = "entering_address"
    /\ data_order.delivery.exists
    /\ data_order.delivery.address = NoText

\* two items of the same product: the same (product_name, product_form)
SamePair(a, b) == a.product_name = b.product_name /\ a.product_form = b.product_form

\* the quantities of the add_item calls made with the pair of a line
RECURSIVE AddedQuantity(_, _)
AddedQuantity(adds, line) ==
    IF adds = <<>> THEN 0
    ELSE (IF SamePair(Head(adds), line) THEN Head(adds).quantity_kg ELSE 0)
             + AddedQuantity(Tail(adds), line)

\* the position of the first add_item call made with the pair of a line
FirstAdd(adds, line) ==
    CHOOSE k \in 1..Len(adds) :
        /\ SamePair(adds[k], line)
        /\ \A m \in 1..(k - 1) : ~SamePair(adds[m], line)

\* C11: after any sequence of add_item calls on an empty order no two lines
\* share a (product_name, product_form) pair, every pair added has a line,
\* each line's quantity is the sum of the quantities added with its pair,
\* and the lines stand in the order of the first add of their pairs.
C11_MergeByPair ==
    agg.only_adds =>
        LET items == agg.order.items
            adds == agg.adds
        IN /\ \A i, j \in 1..Len(items) : i # j => ~SamePair(items[i], items[j])
           /\ \A k \in 1..Len(adds) : \E i \in 1..Len(items) : SamePair(items[i], adds[k])
           /\ \A i \in 1..Len(items) :
                  /\ \E k \in 1..Len(adds) : SamePair(items[i], adds[k])
                  /\ items[i].quantity_kg = AddedQuantity(adds, items[i])
           /\ \A i, j \in 1..Len(items) :
                  i < j => FirstAdd(adds, items[i]) < FirstAdd(adds, items[j])

\* three adds, the third merged into the first line: 600 kg and 0.5 kg
C11_Witness ==
    /\ agg.only_adds
    /\ Len(agg.adds) = 3
    /\ Len(agg.order.items) = 2
    /\ SamePair(agg.adds[3], agg.order.items[1])
    /\ agg.order.items[1].quantity_kg = 6005

\* the sums over the first n lines, taken line by line
RECURSIVE QuantityOfLines(_, _)
QuantityOfLines(items, n) ==
    IF n = 0 THEN 0 ELSE QuantityOfLines(items, n - 1) + items[n].quantity_kg

RECURSIVE PriceOfLines(_, _)
PriceOfLines(items, n) ==
    IF n = 0 THEN 0
    ELSE PriceOfLines(items, n - 1) + items[n].quantity_kg * items[n].price_per_kg

\* C12: after every add_item, remove_item and update_item_quantity call
\* total_quantity is the sum of quantity_kg and total_price the sum of
\* quantity_kg * price_per_kg over the lines the order then has; remove_item
\* with an index out of range, and update_item_quantity with an index out of
\* range or a quantity that is not positive, return False and leave the
\* order as it was.
C12_TotalsFollowLines ==
    [][/\ Order_total_quantity(agg'.order)
              = QuantityOfLines(agg'.order.items, Len(agg'.order.items))
       /\ Order_total_price(agg'.order)
              = PriceOfLines(agg'.order.items, Len(agg'.order.items))
       /\ \A index \in -1..MaxCalls :
              (remove_item(index) /\ ~(0 <= index /\ index < Len(agg.order.items)))
                  => (agg'.returned = "False" /\ agg'.order = agg.order)
       /\ \A index \in -1..MaxCalls, quantity \in {0 - 5, 0, 3, 6000} :
              (/\ update_item_quantity(index, quantity)
               /\ (~(0 <= index /\ index < Len(agg.order.items)) \/ quantity <= 0))
                  => (agg'.returned = "False" /\ agg'.order = agg.order)]_vars

\* a quantity that is not positive was refused on an order of two lines
\* whose first line had been changed before
C12_Witness ==
    /\ agg.call = "update_item_quantity"
    /\ agg.returned = "False"
    /\ ~agg.only_adds
    /\ Len(agg.order.items) = 2
    /\ agg.order.items[1].quantity_kg = 3

C14_NotifyFailuresIsolated ==
    [][\A failed \in SUBSET ManagerIds :
           handle_order_submit(TRUE, failed)
               => /\ submitted'.attempted = ManagerIds
                  /\ submitted'.status = "sent"
                  /\ fsm_state' = NONE
                  /\ data_order' = NoOrderData
                  /\ last'.reply = "accepted"]_vars

\* C15: a submit whose export fails still clears the session and shows the
\* customer the acceptance message; no error escapes the handler.
C15_ExportFailureTolerated ==
    [][\A failed \in SUBSET ManagerIds :
           handle_order_submit(FALSE, failed)
               => /\ fsm_state' = NONE
                  /\ data_order' = NoOrderData
                  /\ last'.reply = "accepted"]_vars

\* C16: once a submit has been processed for a session, an order:submit
\* callback delivered again exports nothing and notifies no manager.
C16_SubmitOnce ==
    [][\A export_ok \in BOOLEAN, failed \in SUBSET ManagerIds :
           (/\ handle_order_submit(export_ok, failed)
            /\ last.h = "handle_order_submit"
            /\ submitted.attempted # {})
               => /\ exported' = exported
                  /\ notified' = notified
                  /\ submitted'.attempted = {}]_vars

\* OrderStatus in the order of the order's life
StatusSequence == <<"draft", "pending", "confirmed", "sent", "processing", "completed">>
StatusRank(status) == CHOOSE k \in 1..Len(StatusSequence) : StatusSequence[k] = status

\* a change the sequence allows: to the next status, or to cancelled before sent
StatusStep(from, to) ==
    \/ to # "cancelled" /\ StatusRank(to) = StatusRank(from) + 1
    \/ to = "cancelled" /\ StatusRank(from) < StatusRank("sent")

\* C17: the status of an order changes only to the next status of
\* draft, pending, confirmed, sent, processing, completed, or to cancelled
\* from a status before sent.
C17_StatusSequence ==
    [][/\ \A export_ok \in BOOLEAN, failed \in SUBSET ManagerIds :
              handle_order_submit(export_ok, failed)
                  => StatusStep(CurrentOrder.status, submitted'.status)
       /\ (/\ data_order.exists
           /\ data_order'.exists
           /\ data_order'.id = data_order.id
           /\ data_order'.status # data_order.status)
              => StatusStep(data_order.status, data_order'.status)]_vars

\* C18: while a wizard state is set, no update reaches the history, the
\* retriever, the extraction or the chat pipeline and none starts an order
\* from a message; a text message the wizard has no handler for changes
\* neither the state nor the order.
C18_WizardShieldsChat ==
    [][fsm_state # NONE =>
          /\ turn'.called = {}
          /\ last'.h # "start_order_from_cart"
          /\ last'.h = "handle_message"
                 => (last'.reply = "none" /\ UNCHANGED <<fsm_state, data_order, nextId>>)]_vars

\* a text message arrived in a wizard state that holds an order
C18_Witness ==
    /\ fsm_state # NONE
    /\ data_order.exists
    /\ last.h = "handle_message"
    /\ last.reply = "none"

\* the quantities of the items an extraction returned
RECURSIVE IntentQuantity(_)
IntentQuantity(items) ==
    IF items = <<>> THEN 0 ELSE Head(items).quantity + IntentQuantity(Tail(items))

\* C19: a text outside the wizard that matches neither the order patterns
\* nor the confirmation patterns calls neither the history, the retriever
\* nor the extraction, starts no wizard and goes to the chat pipeline; the
\* lines of an order started from a message are those of the extracted
\* intent, whatever the text was.
C19_TierOneGate ==
    /\ (/\ last.h \in {"handle_message", "start_order_from_cart"}
        /\ turn.text # <<>>
        /\ ~is_order_confirmation(turn.text)
        /\ ~quick_order_check(turn.text))
           => /\ turn.called = {"chat"}
              /\ last.h = "handle_message"
              /\ last.reply = "chat"
              /\ fsm_state = NONE
              /\ ~data_order.exists
    /\ last.h = "start_order_from_cart"
           => /\ "llm" \in turn.called
              /\ \A i \in 1..Len(data_order.items) :
                     \E k \in 1..Len(turn.items) :
                         /\ data_order.items[i].product_name = turn.items[k].product.name
                         /\ data_order.items[i].product_form = turn.items[k].product.form
                         /\ data_order.items[i].price_per_kg = turn.items[k].product.price
              /\ \A k \in 1..Len(turn.items) :
                     \E i \in 1..Len(data_order.items) :
                         /\ data_order.items[i].product_name = turn.items[k].product.name
                         /\ data_order.items[i].product_form = turn.items[k].product.form
              /\ QuantityOfLines(data_order.items, Len(data_order.items))
                     = IntentQuantity(turn.items)

\* a question about a product went to the chat pipeline and nowhere else
C19_Witness ==
    /\ turn.text = <<"skolko", "stoit", "chernika">>
    /\ turn.called = {"chat"}
    /\ last.reply = "chat"

\* the histories the confirmation check accepts: two entries or more, and
\* among the last six an assistant's message with the currency marker and
\* the weight or the total marker
PricedContext(history) ==
    /\ Len(history) >= 2
    /\ \E i \in 1..Len(history) :
           /\ Len(history) - i < 6
           /\ history[i].role = "assistant"
           /\ {"rub", "kg"} \subseteq history[i].marks
                  \/ {"rub", "total"} \subseteq history[i].marks

\* C20: for a text that is a confirmation the retriever and the extraction
\* are called only when the history has two entries or more and a recent
\* message of the assistant has the currency marker with the weight or the
\* total marker; otherwise nothing but the history is read, no order is
\* started and the text goes to the chat pipeline.
C20_ConfirmationNeedsContext ==
    (/\ last.h \in {"handle_message", "start_order_from_cart"}
     /\ is_order_confirmation(turn.text))
        => /\ "history" \in turn.called
           /\ (turn.called \cap {"retriever", "llm"} # {}) => PricedContext(turn.history)
           /\ ~PricedContext(turn.history)
                  => /\ turn.called = {"history", "chat"}
                     /\ last.h = "handle_message"
                     /\ last.reply = "chat"
                     /\ fsm_state = NONE
                     /\ ~data_order.exists

\* "да" after a user's message that quotes a price: no extraction
C20_Witness ==
    /\ turn.text = <<"da">>
    /\ Len(turn.history) = 2
    /\ turn.history[2] = Entry("user", {"rub", "kg"})
    /\ turn.called = {"history", "chat"}

\* the condition of try_start_order and try_start_order_from_confirmation
Accepted(intent) ==
    /\ intent.is_order
    /\ intent.items # <<>>
    /\ intent.confidence >= MIN_CONFIDENCE

\* C21: a chat message starts the wizard (order stored, state
\* confirming_items) only if the extracted intent is an order, has items and
\* has confidence 0.7 or more; with any other extraction the wizard state
\* stays unset and the chat pipeline answers
C21_WizardNeedsAcceptedIntent ==
    [][\A text \in IntentTexts, history \in IntentHistories,
          retrieved \in RetrieverResults, response \in GoodResponses :
           LET intent == detect_order_intent(response) IN
           fsm_state = NONE /\ handle_message(text, history, retrieved, intent)
               => /\ fsm_state' # NONE => Accepted(intent) /\ "llm" \in turn'.called
                  /\ fsm_state' # NONE
                         => fsm_state' = "confirming_items" /\ data_order'.exists
                  /\ ~Accepted(intent)
                         => /\ fsm_state' = NONE
                            /\ ~data_order'.exists
                            /\ last'.reply = "chat"]_vars

\* the extraction was made and its result turned down: the chat answered
C21_Witness ==
    /\ turn.called = {"history", "retriever", "llm", "chat"}
    /\ fsm_state = NONE
    /\ last.reply = "chat"

\* C22: a failed text-generation call or an output that is not the expected
\* structure ends as no intent does: wizard state and stored order unset,
\* the chat pipeline answers
C22_BadOutputIsNoIntent ==
    [][\A text \in IntentTexts, history \in IntentHistories,
          retrieved \in RetrieverResults, response \in BadResponses :
           fsm_state = NONE
               /\ handle_message(text, history, retrieved, detect_order_intent(response))
               => /\ fsm_state' = NONE
                  /\ ~data_order'.exists
                  /\ last'.reply = "chat"]_vars

\* the kilograms of a product in the lines
RECURSIVE QuantityOfProduct(_, _)
QuantityOfProduct(items, product) ==
    IF items = <<>> THEN 0
    ELSE (IF Head(items).product_name = product.name
                /\ Head(items).product_form = product.form
          THEN Head(items).quantity_kg ELSE 0)
             + QuantityOfProduct(Tail(items), product)

\* a number handle_collecting_items takes as the quantity of the pending item
UsableQuantity(text) ==
    /\ FirstNumber(text.qty) # NoNum
    /\ 0 < FirstNumber(text.qty)
    /\ FirstNumber(text.qty) <= 10000

\* C23: in collecting_items a message that matches a product and gives no
\* usable quantity adds no line and makes the product the pending item; the
\* pending product gets its line exactly when a later message gives a
\* quantity, and then the pending slot is cleared and the line has the
\* product and the price of the held match
C23_PendingItemBecomesLine ==
    [][\A text \in ItemTexts :
           handle_collecting_items(text)
               => /\ pending_item = NoProduct /\ ~text.done
                         /\ text.product # NoProduct /\ ~UsableQuantity(text)
                         => /\ data_order' = data_order
                            /\ pending_item' = text.product
                  /\ pending_item # NoProduct
                         => IF ~text.done /\ UsableQuantity(text)
                            THEN /\ pending_item' = NoProduct
                                 /\ QuantityOfProduct(data_order'.items, pending_item)
                                        = QuantityOfProduct(data_order.items, pending_item)
                                              + FirstNumber(text.qty)
                                 /\ \A p \in Catalog \ {pending_item} :
                                        QuantityOfProduct(data_order'.items, p)
                                            = QuantityOfProduct(data_order.items, p)
                                 /\ \E k \in 1..Len(data_order'.items) :
                                        /\ data_order'.items[k].product_name = pending_item.name
                                        /\ data_order'.items[k].product_form = pending_item.form
                                        /\ data_order'.items[k].price_per_kg = pending_item.price
                            ELSE data_order' = data_order]_vars

\* a product is held and its quantity asked for
C23_Witness ==
    /\ fsm_state = "collecting_items"
    /\ pending_item \in Catalog
    /\ last = [h |-> "handle_collecting_items", reply |-> "ask_quantity", kb |-> last.kb]
    /\ data_order.exists
    /\ QuantityOfProduct(data_order.items, pending_item) = 0

\* C24: a pending item lives for one message: the handling of the user's next
\* message turns it into a line or clears it
C24_PendingOneMessage ==
    [][pending_item # NoProduct /\ (\E text \in ItemTexts : handle_collecting_items(text))
           => pending_item' = NoProduct]_vars

\* C25: two updates of one user are never in processing together: a handler
\* reads, changes and writes back the session before the next update of the
\* user is taken
C25_OneUpdateAtATime ==
    \A t1, t2 \in TaskIds :
        tasks[t1].pc # "idle" /\ tasks[t2].pc # "idle" /\ tasks[t1].user = tasks[t2].user
            => t1 = t2

\* C26: the handling of an update of one user leaves the wizard state, the
\* order snapshot, the pending item and the editing index of every other
\* user as they were
C26_SessionsIsolated ==
    [][\A b \in Users : b # user \/ user' # user => SessionOf(b)' = SessionOf(b)]_vars

\* user b has added a line while user a's order and pending item stayed
C26_Witness ==
    /\ user = "b"
    /\ Len(SessionOf("b").order.items) = 2
    /\ SessionOf("a").pending_item = Asked
    /\ Len(SessionOf("a").order.items) = 1

\* an index of a button, or the stored editing index, that names no line
NoSuchLine(item_index) == item_index >= Len(CurrentOrder.items)

\* C27: an edit, change-quantity, delete or confirm-delete button, or a
\* quantity typed in editing_item, whose index names no line of the order
\* leaves the order as it is, answers with the not-found notice and leaves the
\* session where the item list is shown
C27_MissingLineIsNotFound ==
    [][/\ \A i \in Indices :
              NoSuchLine(i)
                  /\ (\/ handle_edit_item(i)
                      \/ handle_change_quantity_request(i)
                      \/ handle_delete_item_request(i)
                      \/ handle_confirm_delete(i))
                  => /\ data_order' = data_order
                     /\ last'.reply = "not_found"
                     /\ fsm_state' \in {fsm_state, "confirming_items"}
       /\ \A text \in QuantityTexts :
              NoSuchLine(EditingIndex)
                  /\ QuantityValidator_validate(text).ok
                  /\ handle_quantity_input(text)
                  => /\ data_order' = data_order
                     /\ last'.reply = "not_found"
                     /\ fsm_state' = "confirming_items"]_vars

\* confirming_items and the steps after it
ConfirmedSteps == (OrderStates \cup HandlerStates) \ {"collecting_items", "editing_item"}

C29_DateWindow ==
    validated.fn = "DateValidator" /\ DateParsed(validated.text, today) # NoNum
        => LET d == DateParsed(validated.text, today)
               r == validated.result
           IN /\ r.ok <=> (today + 1 <= d /\ d <= today + 30)
              /\ d < today => r.error = "past"
              /\ d = today => r.error = "min"
              /\ d > today + 30 => r.error = "max"
              /\ r.ok => r.value = d /\ r.error = NONE
              /\ r.ok => (r.is_weekend <=> d % 7 \in {5, 6})

\* a Sunday 30 days ahead was accepted and flagged
C29_Witness ==
    /\ validated.fn = "DateValidator"
    /\ validated.result.ok
    /\ validated.result.is_weekend
    /\ validated.result.value = today + 30

\* C30: every accepted window lies in the working hours and is not empty:
\* 08:00 <= from < to <= 18:00; a single time h:m gives h:m to the earlier
\* of h:m + 2 h and 18:00; 'any time' gives 08:00 to 18:00
C30_WindowInWorkingHours ==
    validated.fn = "TimeValidator" /\ validated.result.ok
        => LET r == validated.result
               text == validated.text
           IN /\ 480 <= r.from
              /\ r.from < r.to
              /\ r.to <= 1080
              /\ text.k = "single"
                     => /\ r.from = 60 * text.h1 + text.m1
                        /\ r.to = Min2(r.from + 120, 1080)
              /\ text.k = "slot" /\ text.slot = "any" => r.from = 480 /\ r.to = 1080

\* C31: a message outside the wizard that quick_order_check accepts, with a
\* retrieval that finds a product, reaches the extraction, also when the
\* message matches a confirmation pattern as well
C31_OrderPatternReachesExtraction ==
    [][\A text \in IntentTexts, history \in IntentHistories,
          retrieved \in RetrieverResults, response \in Responses :
           (/\ fsm_state = NONE
            /\ quick_order_check(text)
            /\ retrieved.ok /\ retrieved.products # {}
            /\ handle_message(text, history, retrieved, detect_order_intent(response)))
               => "llm" \in turn'.called]_vars

\* Order.is_complete
Order_is_complete(order) ==
    /\ Len(order.items) > 0
    /\ order.customer.exists
    /\ order.customer.phone # NONE
    /\ order.delivery.exists
    /\ (order.delivery.delivery_type = "pickup" \/ order.delivery.address # NoText)

\* C32: an order is exported and sent to the managers only if it is
\* complete: a line, a customer with a phone, a delivery choice, and an
\* address when the choice is delivery
C32_OnlyCompleteOrdersSent ==
    [][exported' # exported \/ notified' # notified => Order_is_complete(CurrentOrder)]_vars

\* C33: declining the cancellation after a cancel request leaves the wizard
\* in the step the request was made in, with the stored order as it was
C33_ContinueReturnsToStep ==
    [][last.h = "handle_cancel_request" /\ handle_continue_order
           => fsm_state' = fsm_state /\ data_order' = data_order]_vars

\* a callback that did nothing to the session, the export or the managers
Ignored == UNCHANGED <<fsm_state, data_order, exported, notified>>

C35_StateIsDeclared == fsm_state = NONE \/ fsm_state \in OrderStates

(***************************************************************************)
(* The delivery steps over several days.  date.today() is read when a      *)
(* keyboard is built and when a typed date is validated; the buttons of a  *)
(* keyboard keep the dates of the day it was built on.                     *)
(***************************************************************************)
MaxDays == 2

\* the calendar day changes while the chat stays as it is
midnight ==
    /\ today < FirstDay + MaxDays
    /\ today' = today + 1
    /\ UNCHANGED <<fsm_state, data_order, editing_item_index, pending_item, last, nextId,
                   exported, notified, cancelled, old_buttons, submitted, turn, agg,
                   user, storage, tasks, validated>>

NextDays ==
    \/ NextDelivery
    \/ midnight
    \/ handle_date_selection(today)
    \/ handle_date_confirm(today)

SpecDays == InitDelivery /\ [][NextDays]_vars

\* a step in which a handler writes the desired date of the order
DateWritten ==
    /\ last'.h \in {"handle_date_selection", "handle_date_confirm", "handle_date_input"}
    /\ last'.reply = "prompt"
    /\ fsm_state' = "entering_time"

\* C36: a desired date, typed or chosen by a quick button or confirmed after
\* the weekend warning, lies between tomorrow and thirty days ahead of the
\* day on which it is written
C36_WrittenDateInWindow ==
    [][DateWritten
          => LET written == get_or_create_order(data_order', nextId').delivery.desired_date
             IN today + 1 <= written /\ written <= today + 30]_vars

\* C37: an order whose packaging type is 'any' has no weight per package
C37_AnyPackagingHasNoWeight ==
    LET packaging == CurrentOrder.packaging
    IN packaging.exists /\ packaging.packaging_type = "any"
          => packaging.weight_per_unit = NoNum

(***************************************************************************)
(* The confirmation of a deletion tapped more than once.  Every tap on the *)
(* button of the prompt makes a callback query of its own, which carries   *)
(* the callback data and the message the button is on; the queries are     *)
(* handled one after the other, each by handle_confirm_delete.             *)
(***************************************************************************)
\* the user taps 'order:confirm_delete:<item_index>' on the prompt on screen:
\* the prompt names the line handle_delete_item_request found at that index
tap_confirm_delete(t, item_index) ==
    /\ tasks[t].pc = "idle"
    /\ BtnN("order:confirm_delete", item_index) \in Buttons(last.kb)
    /\ item_index < Len(CurrentOrder.items)
    /\ tasks' = [tasks EXCEPT ![t] = [pc |-> "queued", user |-> user, text |-> NoTask.text,
                                      item_index |-> item_index,
                                      item |-> CurrentOrder.items[item_index + 1]]]
    /\ UNCHANGED <<fsm_state, data_order, editing_item_index, pending_item, last, today,
                   nextId, exported, notified, cancelled, old_buttons, submitted, turn,
                   agg, user, storage, validated>>

\* handle_confirm_delete on the callback query t
deliver_confirm_delete(t) ==
    LET removed == Order_remove_item(CurrentOrder, tasks[t].item_index)
    IN /\ tasks[t].pc = "queued"
       /\ tasks' = [tasks EXCEPT ![t] = NoTask]
       /\ IF removed.order.items = <<>>
          THEN /\ fsm_state' = NONE
               /\ ClearData
               /\ Says("handle_confirm_delete", "order_cancelled", NoKeyboard)
          ELSE /\ data_order' = IF removed.ok THEN Order_to_dict(removed.order)
                                ELSE data_order
               /\ Says("handle_confirm_delete", "items",
                       KbN("items", Len(removed.order.items)))
               /\ UNCHANGED <<fsm_state, editing_item_index, pending_item>>
       /\ UNCHANGED <<today, nextId, exported, notified, cancelled, old_buttons, submitted,
                      agg, user, storage, validated>>

InitTaps ==
    /\ fsm_state = NONE
    /\ data_order = NoOrderData
    /\ editing_item_index = NoNum
    /\ pending_item = NoProduct
    /\ last = [h |-> "none", reply |-> "none", kb |-> NoKeyboard]
    /\ today = FirstDay
    /\ nextId = 0
    /\ exported = {}
    /\ notified = {}
    /\ cancelled = {}
    /\ old_buttons = {}
    /\ submitted = NoSubmit
    /\ turn = NoTurn
    /\ agg = NoCalls(Order(0))
    /\ OneUser
    /\ validated = NoCall

NextTaps ==
    \/ \E items \in IntentItems : handle_message_order(items)
    \/ \E i \in Indices : handle_edit_item(i)
    \/ \E i \in Indices : handle_delete_item_request(i)
    \/ handle_back_to_items
    \/ \E t \in TaskIds, i \in Indices : tap_confirm_delete(t, i)
    \/ \E t \in TaskIds : deliver_confirm_delete(t)

SpecTaps == InitTaps /\ [][NextTaps]_vars

\* C38: a delivery of the confirmation removes no line but the one its
\* prompt named, so a second delivery of the same tap removes nothing more
C38_TapRemovesOnlyItsLine ==
    [][\A t \in TaskIds :
           deliver_confirm_delete(t)
              => LET before == CurrentOrder.items
                     after == get_or_create_order(data_order', nextId' + 1).items
                 IN \A k \in 1..Len(before) :
                        before[k] # tasks[t].item
                           => \E m \in 1..Len(after) : after[m] = before[k]]_vars

(***************************************************************************)
(* The wizard walked forward: a chat with no older keyboards, in which the *)
(* user answers every prompt with a text or with a button of the keyboard  *)
(* on screen other than back and cancel.  A text the step rejects and an   *)
(* export that raises leave the wizard where it is; the user who keeps     *)
(* answering with accepted input is the weak fairness of KeepsAnswering.   *)
(***************************************************************************)
AcceptedWeights == {text \in WeightTexts : text.num /\ text.q >= 10 /\ text.q <= 500}
AcceptedAddresses == {text \in AddressTexts : AddressValidator_validate(text).ok}
AcceptedDates == {text \in DateTexts : DateValidator_validate(text, today).ok}
AcceptedTimes == {text \in TimeTexts : TimeValidator_validate(text).ok}
AcceptedNames == {text \in NameTexts : NameAccepted(text)}
AcceptedPhones == {text \in PhoneTexts : PhoneValidator_validate(text).ok}

Forward ==
    \/ handle_confirm_items
    \/ \E t \in PackagingType : handle_packaging_selected(t)
    \/ \E w \in PressedWeights : handle_package_weight_selected(w)
    \/ \E text \in AcceptedWeights : handle_package_weight_input(text)
    \/ handle_delivery_selected
    \/ handle_pickup_selected
    \/ \E text \in AcceptedAddresses : handle_address_input(text)
    \/ handle_date_selection_custom
    \/ \E d \in PressedDates : handle_date_selection(d)
    \/ handle_date_confirm(today + 2)
    \/ \E text \in AcceptedDates : handle_date_input(text)
    \/ handle_time_selection_custom
    \/ \E slot \in PressedSlots : handle_time_selection(slot)
    \/ \E text \in AcceptedTimes : handle_time_input(text)
    \/ \E text \in AcceptedNames : handle_name_input(text)
    \/ \E text \in AcceptedPhones : handle_phone_input(text)
    \/ handle_skip_company
    \/ \E text \in CompanyTexts : handle_company_input(text)
    \/ handle_skip_comment
    \/ \E text \in CommentTexts : handle_comment_input(text)
    \/ \E failed \in SUBSET ManagerIds : handle_order_submit(TRUE, failed)

Rejected ==
    \/ \E text \in WeightTexts \ AcceptedWeights : handle_package_weight_input(text)
    \/ \E text \in AddressTexts \ AcceptedAddresses : handle_address_input(text)
    \/ \E text \in DateTexts \ AcceptedDates : handle_date_input(text)
    \/ \E text \in TimeTexts \ AcceptedTimes : handle_time_input(text)
    \/ \E text \in NameTexts \ AcceptedNames : handle_name_input(text)
    \/ \E text \in PhoneTexts \ AcceptedPhones : handle_phone_input(text)
    \/ handle_order_submit(FALSE, {})

NextForward ==
    \/ handle_message_order(<<[product |-> Asked, quantity |-> 6000]>>)
    \/ Forward
    \/ Rejected

\* the user goes on answering, and answers the weekend warning by confirming
\* the date rather than by typing one more date
KeepsAnswering == WF_vars(Forward) /\ WF_vars(handle_date_confirm(today + 2))

SpecForward == InitTaps /\ [][NextForward]_vars /\ KeepsAnswering

\* the item list of an order with at least one line is on screen
ItemsConfirmed == fsm_state = "confirming_items" /\ Len(CurrentOrder.items) >= 1

\* the terminal outcome: the order went out as sent and the session is cleared
OrderSent ==
    /\ submitted.status = "sent"
    /\ submitted.id \in exported
    /\ fsm_state = NONE
    /\ data_order = NoOrderData

====
